---- MODULE Spec2Model ----
(***************************************************************************)
(* ndarray-layout: the ArrayLayout<N> descriptor (offset, shape, strides), *)
(* its inline-or-heap storage, its constructors, queries and transforms.   *)
(*                                                                         *)
(* A machine word is an integer.  A layout value is the pair (ndim, union);*)
(* the union holds either a pointer to a heap block of 1 + 2*ndim words or *)
(* the inline words.  The heap is an array of blocks; a block records      *)
(* which of its words were never written.                                  *)
(***************************************************************************)
EXTENDS Integers, Sequences, FiniteSets, TLC

VARIABLES
    slots,   \* the layouts the caller owns, one per slot (NoLayout: none)
    heap,    \* the allocator's blocks
    iter,    \* the Split iterator the caller holds (NoSplit: none)
    last,    \* the last call: its name, arguments, outcome and returned number
    fault,   \* memory faults seen so far
    fuel     \* calls the caller may still make

vars == <<slots, heap, iter, last, fault, fuel>>

(***************************************************************************)
(* Bounds of the model.                                                    *)
(***************************************************************************)
NumSlots == 2
MaxBlocks == 3
MaxCap == 2
MaxNdim == 3
MaxDim == 2
MaxCalls == 4
MaxWord == 300
TransformCalls == 2
MergeCalls == 2
CtorCalls == 3
QueryCalls == 2
MaxExtent == 4
MaxElementSize == 4
MaxStride == 2
MaxIndex == 64
MaxTile == 3
TileCalls == 2
HeapCalls == 2
SliceCalls == 4

Slots == 1..NumSlots
Caps == 1..MaxCap

(***************************************************************************)
(* Small helpers on sequences.                                             *)
(***************************************************************************)
SeqUpTo(S, n) == UNION {[1..k -> S] : k \in 0..n}

Zeros(n) == [i \in 1..n |-> 0]

Abs(x) == IF x < 0 THEN -x ELSE x

Min2(a, b) == IF a < b THEN a ELSE b

Max2(a, b) == IF a < b THEN b ELSE a

Rev(s) == [i \in 1..Len(s) |-> s[Len(s) + 1 - i]]

RECURSIVE Prod(_)
Prod(s) == IF s = <<>> THEN 1 ELSE Head(s) * Prod(Tail(s))

RECURSIVE Sum(_)
Sum(s) == IF s = <<>> THEN 0 ELSE Head(s) + Sum(Tail(s))

(***************************************************************************)
(* Endian.                                                                 *)
(***************************************************************************)
BigEndian == "BigEndian"
LittleEndian == "LittleEndian"
Endian == {BigEndian, LittleEndian}

(***************************************************************************)
(* The heap: alloc / dealloc of blocks of words.                           *)
(***************************************************************************)
FreeBlk == [live |-> FALSE, w |-> <<>>, un |-> {}]

Blk(h, b) == IF b \in DOMAIN h THEN h[b] ELSE FreeBlk

FreeBlocks(h) == {b \in DOMAIN h : ~h[b].live}

LiveBlocks(h) == {b \in DOMAIN h : h[b].live}

\* A block with one word more than the fields need.
layout_padded(ndim) == 2 + ndim * 2

\* layout(ndim): the block of a layout of ndim dimensions has 1 + 2*ndim words.
layout(ndim) == 1 + ndim * 2

\* alloc returns the lowest free block, with every word unwritten.
alloc(h, words) ==
    LET b == CHOOSE x \in FreeBlocks(h) : \A y \in FreeBlocks(h) : x <= y
    IN [ptr |-> b,
        h |-> [h EXCEPT ![b] = [live |-> TRUE, w |-> Zeros(words), un |-> 1..words]]]

dealloc(h, b) == IF b \in DOMAIN h THEN [h EXCEPT ![b] = FreeBlk] ELSE h

(***************************************************************************)
(* ArrayLayout<N>: ndim and the union.  ptr = 0 and inl = the inline words *)
(* when the union holds the inline tuple; inl = <<>> when it holds a ptr.  *)
(***************************************************************************)
NoLayout == [N |-> 0, ndim |-> 0, ptr |-> 0, inl |-> <<>>]

\* ptr_allocated: Some(ptr) iff ndim > N, None (0) otherwise.
ptr_allocated(l) == IF l.ndim > l.N THEN l.ptr ELSE 0

\* A value under construction or in use: the layout, the heap it lives in, and
\* whether the running call is still alive (ok = FALSE after a panic).
Mem(l, h) == [l |-> l, h |-> h, ok |-> TRUE]

\* with_ndim: inline zeros when ndim <= N, a fresh heap block otherwise.
with_ndim(ndim, N, h) ==
    IF ndim <= N
    THEN Mem([N |-> N, ndim |-> ndim, ptr |-> 0, inl |-> Zeros(1 + 2 * N)], h)
    ELSE LET a == alloc(h, layout(ndim))
         IN Mem([N |-> N, ndim |-> ndim, ptr |-> a.ptr, inl |-> <<>>], a.h)

\* content / content_mut: the words the layout's fields live in.
content(l, h) ==
    IF ptr_allocated(l) # 0
    THEN [ndim |-> l.ndim, w |-> Blk(h, l.ptr).w, un |-> Blk(h, l.ptr).un]
    ELSE [ndim |-> l.ndim, w |-> l.inl, un |-> {}]

WordAt(c, i) == IF i \in DOMAIN c.w THEN c.w[i] ELSE 0

\* Content::as_slice, offset, shape, strides.
as_slice(c) == [i \in 1..(1 + c.ndim * 2) |-> WordAt(c, i)]

c_offset(c) == WordAt(c, 1)

c_shape(c) == [i \in 1..c.ndim |-> WordAt(c, 1 + i)]

c_strides(c) == [i \in 1..c.ndim |-> WordAt(c, 1 + c.ndim + i)]

\* ArrayLayout::ndim, offset, shape, strides.
ndim(l) == l.ndim

offset(l, h) == c_offset(content(l, h))

shape(l, h) == c_shape(content(l, h))

strides(l, h) == c_strides(content(l, h))

\* A write of one word through content_mut's pointer (pos is 1-based).
write(m, pos, val) ==
    IF ~m.ok THEN m
    ELSE IF ptr_allocated(m.l) # 0
    THEN IF m.l.ptr \in DOMAIN m.h /\ pos \in DOMAIN m.h[m.l.ptr].w
         THEN [m EXCEPT !.h[m.l.ptr].w[pos] = val,
                        !.h[m.l.ptr].un = @ \ {pos}]
         ELSE [m EXCEPT !.ok = FALSE]
    ELSE IF pos \in DOMAIN m.l.inl
         THEN [m EXCEPT !.l.inl[pos] = val]
         ELSE [m EXCEPT !.ok = FALSE]

panic(m) == [m EXCEPT !.ok = FALSE]

\* Content<true>::set_offset, set_shape, set_stride (idx is 0-based).
set_offset(m, val) == write(m, 1, val)

set_shape(m, idx, val) ==
    IF idx < m.l.ndim THEN write(m, 1 + idx + 1, val) ELSE panic(m)

set_stride(m, idx, val) ==
    IF idx < m.l.ndim THEN write(m, 1 + idx + m.l.ndim + 1, val) ELSE panic(m)

RECURSIVE copy_words(_, _, _, _)
copy_words(m, base, val, k) ==
    IF k > Len(val) THEN m
    ELSE copy_words(write(m, base + k, val[k]), base, val, k + 1)

\* Content<true>::copy_shape, copy_strides.
copy_shape(m, val) ==
    IF Len(val) = m.l.ndim THEN copy_words(m, 1, val, 1) ELSE panic(m)

\* A copy_strides that puts the strides after N shape words.
copy_strides_at_N(m, val) ==
    IF Len(val) = m.l.ndim THEN copy_words(m, 1 + m.l.N, val, 1) ELSE panic(m)

copy_strides(m, val) ==
    IF Len(val) = m.l.ndim THEN copy_words(m, 1 + m.l.ndim, val, 1) ELSE panic(m)

\* A Drop that never frees.
drop_never(l, h) == h

\* Drop for ArrayLayout: frees the block iff ptr_allocated.
drop(l, h) == IF ptr_allocated(l) # 0 THEN dealloc(h, ptr_allocated(l)) ELSE h

\* Dropping a layout whose block is not live is a double free.
drop_fault(l, h) ==
    IF ptr_allocated(l) # 0 /\ ~Blk(h, ptr_allocated(l)).live
    THEN {"double_free"} ELSE {}

\* The outcome of a call: the returned layout (st = "ok"), or a panic whose
\* unwinding drops the value under construction (st = "abort").
Finish(m) ==
    IF m.ok THEN [st |-> "ok", l |-> m.l, h |-> m.h]
    ELSE [st |-> "abort", l |-> NoLayout, h |-> drop(m.l, m.h)]

Aborted(h) == [st |-> "abort", l |-> NoLayout, h |-> h]

(***************************************************************************)
(* Constructors.                                                           *)
(***************************************************************************)
\* A new that keeps the common prefix of shape and strides.
new_truncating(shp, strd, off, N, h) ==
    LET n == Min2(Len(shp), Len(strd))
    IN Finish(copy_strides(copy_shape(set_offset(with_ndim(n, N, h), off), SubSeq(shp, 1, n)),
                           SubSeq(strd, 1, n)))

\* ArrayLayout::new
new(shp, strd, off, N, h) ==
    IF Len(shp) # Len(strd) THEN Aborted(h)
    ELSE Finish(copy_strides(copy_shape(set_offset(with_ndim(Len(shp), N, h), off), shp), strd))

RECURSIVE contiguous_push_flat(_, _, _, _)
\* A push that never updates mul: every axis gets the stride element_size.
contiguous_push_flat(m, shp, order, mul) ==
    IF order = <<>> THEN m
    ELSE contiguous_push_flat(set_stride(m, Head(order), mul), shp, Tail(order), mul)

RECURSIVE contiguous_push(_, _, _, _)
\* The closure push of new_contiguous applied along the axes in `order`.
contiguous_push(m, shp, order, mul) ==
    IF order = <<>> THEN m
    ELSE LET i == Head(order)
         IN contiguous_push(set_stride(m, i, mul), shp, Tail(order), mul * shp[i + 1])

\* A new_contiguous that visits the axes forwards whatever the endian.
new_contiguous_forwards(shp, endian, element_size, N, h) ==
    LET n == Len(shp)
        fwd == [k \in 1..n |-> k - 1]
    IN Finish(contiguous_push(copy_shape(set_offset(with_ndim(n, N, h), 0), shp),
                              shp, fwd, element_size))

\* ArrayLayout::new_contiguous
new_contiguous(shp, endian, element_size, N, h) ==
    LET n == Len(shp)
        fwd == [k \in 1..n |-> k - 1]
        order == IF endian = BigEndian THEN Rev(fwd) ELSE fwd
    IN Finish(contiguous_push(copy_shape(set_offset(with_ndim(n, N, h), 0), shp),
                              shp, order, element_size))

\* A Clone that copies ndim and the union as they are.
clone_shallow(l, h) == [st |-> "ok", l |-> l, h |-> h]

\* Clone for ArrayLayout
clone(l, h) == new(shape(l, h), strides(l, h), offset(l, h), l.N, h)

\* A conversion that keeps the capacity of the receiver.
to_inline_size_same_cap(l, M, h) == new(shape(l, h), strides(l, h), offset(l, h), l.N, h)

\* ArrayLayout::to_inline_size::<M>
to_inline_size(l, M, h) == new(shape(l, h), strides(l, h), offset(l, h), M, h)

\* An equality on ndim, offset and shape only.
eq_shape_only(a, b, h) ==
    a.ndim = b.ndim /\ SubSeq(as_slice(content(a, h)), 1, 1 + a.ndim)
                       = SubSeq(as_slice(content(b, h)), 1, 1 + b.ndim)

\* PartialEq for ArrayLayout
eq(a, b, h) == a.ndim = b.ndim /\ as_slice(content(a, h)) = as_slice(content(b, h))

\* ArrayLayout::num_elements
num_elements(l, h) == Prod(shape(l, h))

(***************************************************************************)
(* Transform argument records.                                             *)
(***************************************************************************)
IndexArg(axis, index) == [axis |-> axis, index |-> index]

SliceArg(axis, start, step, len) == [axis |-> axis, start |-> start, step |-> step, len |-> len]

BroadcastArg(axis, times) == [axis |-> axis, times |-> times]

MergeArg(start, len, endian) == [start |-> start, len |-> len, endian |-> endian]

TileArg(axis, endian, tiles) == [axis |-> axis, endian |-> endian, tiles |-> tiles]

\* usize::div_ceil
div_ceil(a, b) == (a + b - 1) \div b

\* isize division truncates toward zero.
trunc_div(a, b) ==
    IF (a >= 0) = (b >= 0) THEN Abs(a) \div Abs(b) ELSE -(Abs(a) \div Abs(b))

(***************************************************************************)
(* index_many                                                              *)
(***************************************************************************)
\* A check of the axis alone.
index_check_axis_only(shp, arg) == arg.axis < Len(shp)

\* The closure check of index_many: the axis exists and index < shape[axis].
index_check(shp, arg) == arg.axis < Len(shp) /\ arg.index < shp[arg.axis + 1]

RECURSIVE index_loop_unit_stride(_, _, _, _, _, _, _)
\* A loop that advances the offset by the index alone, as if every stride were 1.
index_loop_unit_stride(m, shp, strd, i, args, j, off) ==
    IF ~m.ok THEN m
    ELSE IF i >= Len(shp) THEN set_offset(m, off)
    ELSE IF args # <<>> /\ Head(args).axis = i
    THEN index_loop_unit_stride(m, shp, strd, i + 1, Tail(args), j, off + Head(args).index)
    ELSE index_loop_unit_stride(set_stride(set_shape(m, j, shp[i + 1]), j, strd[i + 1]),
                                shp, strd, i + 1, args, j + 1, off)

RECURSIVE index_loop(_, _, _, _, _, _, _)
\* The for loop of index_many; it ends with set_offset.
index_loop(m, shp, strd, i, args, j, off) ==
    IF ~m.ok THEN m
    ELSE IF i >= Len(shp) THEN set_offset(m, off)
    ELSE IF args # <<>> /\ Head(args).axis = i
    THEN LET a == Head(args)
             tail == Tail(args)
             good == tail = <<>> \/ (index_check(shp, Head(tail)) /\ Head(tail).axis > a.axis)
         IN IF good
            THEN index_loop(m, shp, strd, i + 1, tail, j, off + a.index * strd[i + 1])
            ELSE panic(m)
    ELSE index_loop(set_stride(set_shape(m, j, shp[i + 1]), j, strd[i + 1]),
                    shp, strd, i + 1, args, j + 1, off)

\* ArrayLayout::index_many
index_many(l, h, args) ==
    LET shp == shape(l, h)
        strd == strides(l, h)
    IN IF args = <<>> THEN clone(l, h)
       ELSE IF ~index_check(shp, Head(args)) THEN Aborted(h)
       ELSE IF l.ndim < Len(args) THEN Aborted(h)
       ELSE Finish(index_loop(with_ndim(l.ndim - Len(args), l.N, h),
                              shp, strd, 0, args, 0, offset(l, h)))

(***************************************************************************)
(* slice_many.  chk: the build checks integer overflow (a debug build      *)
(* panics on d - 1 with d = 0, a release build wraps to usize::MAX).       *)
(***************************************************************************)
\* A match whose negative-step arm uses start as given, without the clamp to d - 1.
slice_arm_unclamped(d, arg, chk) ==
    IF arg.step > 0
    THEN [ok |-> arg.start < d, start |-> arg.start,
          len |-> IF arg.start < d THEN Min2(div_ceil(d - arg.start, arg.step), arg.len) ELSE 0]
    ELSE IF arg.step = 0
    THEN [ok |-> arg.start < d, start |-> arg.start, len |-> arg.len]
    ELSE [ok |-> ~(d = 0 /\ chk), start |-> arg.start,
          len |-> Min2(div_ceil(arg.start + 1, -arg.step), arg.len)]

\* The match on step.cmp(&0): the start actually used, the resulting length,
\* and whether the arm's assertion held.
\* Arms whose negative-step arm starts at arg.start, however large.
slice_arm_start_kept(d, arg, chk) ==
    IF arg.step > 0
    THEN [ok |-> arg.start < d, start |-> arg.start,
          len |-> IF arg.start < d THEN Min2(div_ceil(d - arg.start, arg.step), arg.len) ELSE 0]
    ELSE IF arg.step = 0
    THEN [ok |-> arg.start < d, start |-> arg.start, len |-> arg.len]
    ELSE [ok |-> ~(d = 0 /\ chk), start |-> arg.start,
          len |-> Min2(div_ceil(arg.start + 1, -arg.step), arg.len)]

slice_arm(d, arg, chk) ==
    IF arg.step > 0
    THEN [ok |-> arg.start < d, start |-> arg.start,
          len |-> IF arg.start < d THEN Min2(div_ceil(d - arg.start, arg.step), arg.len) ELSE 0]
    ELSE IF arg.step = 0
    THEN [ok |-> arg.start < d, start |-> arg.start, len |-> arg.len]
    ELSE LET start == IF d = 0 THEN arg.start ELSE Min2(arg.start, d - 1)
         IN [ok |-> ~(d = 0 /\ chk), start |-> start,
             len |-> Min2(div_ceil(start + 1, -arg.step), arg.len)]

RECURSIVE slice_loop(_, _, _, _, _, _, _)
\* The for loop of slice_many; it ends with set_offset.
slice_loop(m, shp, strd, i, args, off, chk) ==
    IF ~m.ok THEN m
    ELSE IF i >= Len(shp) THEN set_offset(m, off)
    ELSE IF args # <<>> /\ Head(args).axis = i
    THEN LET a == Head(args)
             tail == Tail(args)
             d == shp[i + 1]
             s == strd[i + 1]
             r == slice_arm(d, a, chk)
             good == tail = <<>> \/ (a.axis < Head(tail).axis /\ Head(tail).axis < Len(shp))
         IN IF ~r.ok THEN panic(m)
            ELSE IF ~good THEN panic(m)
            ELSE slice_loop(set_stride(set_shape(m, i, r.len), i, s * a.step),
                            shp, strd, i + 1, tail, off + r.start * s, chk)
    ELSE slice_loop(set_stride(set_shape(m, i, shp[i + 1]), i, strd[i + 1]),
                    shp, strd, i + 1, args, off, chk)

\* ArrayLayout::slice_many
slice_many(l, h, args, chk) ==
    Finish(slice_loop(with_ndim(l.ndim, l.N, h), shape(l, h), strides(l, h),
                      0, args, offset(l, h), chk))

(***************************************************************************)
(* broadcast_many                                                          *)
(***************************************************************************)
RECURSIVE broadcast_loop_unchecked(_, _)
\* A loop without the assertion on the target axis.
broadcast_loop_unchecked(m, args) ==
    IF ~m.ok \/ args = <<>> THEN m
    ELSE LET a == Head(args)
         IN broadcast_loop_unchecked(set_stride(set_shape(m, a.axis, a.times), a.axis, 0), Tail(args))

RECURSIVE broadcast_loop(_, _)
broadcast_loop(m, args) ==
    IF ~m.ok \/ args = <<>> THEN m
    ELSE LET a == Head(args)
             c == content(m.l, m.h)
         IN IF a.axis >= m.l.ndim THEN panic(m)
            ELSE IF ~(c_shape(c)[a.axis + 1] = 1 \/ c_strides(c)[a.axis + 1] = 0) THEN panic(m)
            ELSE broadcast_loop(set_stride(set_shape(m, a.axis, a.times), a.axis, 0), Tail(args))

\* ArrayLayout::broadcast_many
broadcast_many(l, h, args) ==
    LET ans == clone(l, h)
    IN IF ans.st # "ok" THEN ans
       ELSE Finish(broadcast_loop(Mem(ans.l, ans.h), args))


(***************************************************************************)
(* merge_many.  flip: how sort_unstable_by_key leaves pairs of equal key   *)
(* (FALSE: in collection order, TRUE: in the opposite order).              *)
(***************************************************************************)
FreeOrder == "None"

\* push of merge_many / tile_many: writes axis i of ans; st.i counts the axes written.
push(st, d, s) ==
    [st EXCEPT !.m = set_stride(set_shape(st.m, st.i, d), st.i, s), !.i = st.i + 1]

RECURSIVE push_range(_, _, _, _, _)
\* for j in from..to { push(shape[j], strides[j]) }; shape[j] panics out of bounds.
push_range(st, shp, strd, from, to) ==
    IF ~st.m.ok \/ from >= to THEN st
    ELSE IF from >= Len(shp) THEN [st EXCEPT !.m = panic(st.m)]
    ELSE push_range(push(st, shp[from + 1], strd[from + 1]), shp, strd, from + 1, to)

RECURSIVE merge_pairs(_, _, _, _)
\* The (d, s) pairs of the axes start..end-1 whose extent is not 1.
merge_pairs(shp, strd, start, end) ==
    IF start >= end THEN <<>>
    ELSE (IF shp[start + 1] = 1 THEN <<>> ELSE << <<shp[start + 1], strd[start + 1]>> >>)
         \o merge_pairs(shp, strd, start + 1, end)

RECURSIVE sort_insert(_, _, _)
sort_insert(sorted, p, flip) ==
    IF sorted = <<>> THEN <<p>>
    ELSE LET q == Head(sorted)
             before == IF flip THEN Abs(p[2]) <= Abs(q[2]) ELSE Abs(p[2]) < Abs(q[2])
         IN IF before THEN <<p>> \o sorted
            ELSE <<q>> \o sort_insert(Tail(sorted), p, flip)

\* A sort that leaves the pairs in the listed order.
sort_not_at_all(pairs, flip) == pairs

RECURSIVE sort_by_abs_stride(_, _)
\* pairs.sort_unstable_by_key(|(_, s)| s.unsigned_abs())
sort_by_abs_stride(pairs, flip) ==
    IF pairs = <<>> THEN <<>>
    ELSE sort_insert(sort_by_abs_stride(SubSeq(pairs, 1, Len(pairs) - 1), flip),
                     pairs[Len(pairs)], flip)

\* An order that keeps the listed order for BigEndian too.
merge_order_as_listed(pairs, endian, flip) ==
    IF endian \in Endian THEN pairs ELSE sort_by_abs_stride(pairs, flip)

merge_order(pairs, endian, flip) ==
    IF endian = BigEndian THEN Rev(pairs)
    ELSE IF endian = LittleEndian THEN pairs
    ELSE sort_by_abs_stride(pairs, flip)

RECURSIVE merge_fuse_any(_, _, _)
\* A walk that multiplies the extents whatever the strides.
merge_fuse_any(rest, s, d) ==
    IF rest = <<>> THEN d ELSE merge_fuse_any(Tail(rest), s, d * Head(rest)[1])

RECURSIVE merge_fuse_abs(_, _, _)
\* A walk that compares the strides up to their sign.
merge_fuse_abs(rest, s, d) ==
    IF rest = <<>> THEN d
    ELSE IF Abs(Head(rest)[2]) = Abs(s * d) THEN merge_fuse_abs(Tail(rest), s, d * Head(rest)[1])
    ELSE -1

RECURSIVE merge_fuse(_, _, _)
\* The contiguity walk: the fused extent, or -1 when a stride does not fit.
merge_fuse(rest, s, d) ==
    IF rest = <<>> THEN d
    ELSE IF Head(rest)[2] = s * d THEN merge_fuse(Tail(rest), s, d * Head(rest)[1])
    ELSE -1

RECURSIVE merge_loop(_, _, _, _, _)
\* The for loop over args of merge_many; st = [m, i, last_end, none].
merge_loop(st, shp, strd, args, flip) ==
    IF ~st.m.ok \/ st.none THEN st
    ELSE IF args = <<>> THEN push_range(st, shp, strd, st.last_end, Len(shp))
    ELSE LET a == Head(args)
             end == a.start + a.len
         IN IF a.len = 0 THEN merge_loop(st, shp, strd, Tail(args), flip)
            ELSE LET st1 == push_range(st, shp, strd, st.last_end, a.start)
                 IN IF ~st1.m.ok THEN st1
                    ELSE IF end > Len(shp) THEN [st1 EXCEPT !.m = panic(st1.m)]
                    ELSE IF \E j \in a.start..(end - 1) : shp[j + 1] = 0
                    THEN [st1 EXCEPT !.m = panic(st1.m)]
                    ELSE LET pairs == merge_pairs(shp, strd, a.start, end)
                             st2 == [st1 EXCEPT !.last_end = end]
                         IN IF pairs = <<>>
                            THEN merge_loop(push(st2, 1, 0), shp, strd, Tail(args), flip)
                            ELSE LET ord == merge_order(pairs, a.endian, flip)
                                     s == Head(ord)[2]
                                     d == merge_fuse(Tail(ord), s, Head(ord)[1])
                                 IN IF d < 0 THEN [st2 EXCEPT !.none = TRUE]
                                    ELSE merge_loop(push(st2, d, s), shp, strd, Tail(args), flip)

RECURSIVE merged_no_max(_)
\* The count without the max(1): a range of length 0 counts as 0 axes.
merged_no_max(args) ==
    IF args = <<>> THEN 0 ELSE Head(args).len + merged_no_max(Tail(args))

RECURSIVE merged_count(_)
\* args.iter().map(|arg| arg.len.max(1)).sum()
merged_count(args) ==
    IF args = <<>> THEN 0 ELSE Max2(Head(args).len, 1) + merged_count(Tail(args))

\* ArrayLayout::merge_many: st = "none" is the None result; ans is dropped then.
merge_many(l, h, args, flip) ==
    LET merged == merged_count(args)
    IN IF l.ndim + Len(args) < merged THEN Aborted(h)
       ELSE LET m0 == set_offset(with_ndim(l.ndim + Len(args) - merged, l.N, h), offset(l, h))
                st == merge_loop([m |-> m0, i |-> 0, last_end |-> 0, none |-> FALSE],
                                 shape(l, h), strides(l, h), args, flip)
            IN IF st.m.ok /\ st.none
               THEN [st |-> "none", l |-> NoLayout, h |-> drop(st.m.l, st.m.h)]
               ELSE Finish(st.m)

(***************************************************************************)
(* tile_many                                                               *)
(***************************************************************************)
\* The closure check of tile_many: the axis exists and its extent is the product.
tile_check(shp, arg) == arg.axis < Len(shp) /\ shp[arg.axis + 1] = Prod(arg.tiles)

RECURSIVE tile_args_ok_unordered(_, _, _)
\* A walk over args[1..] that tests each arg and not the order of the axes.
tile_args_ok_unordered(shp, rest, last_axis) ==
    rest = <<>> \/ (/\ tile_check(shp, Head(rest))
                    /\ tile_args_ok_unordered(shp, Tail(rest), Head(rest).axis))

RECURSIVE tile_args_ok(_, _, _)
\* The asserts over args[1..]: each checked, axes strictly ascending.
tile_args_ok(shp, rest, last_axis) ==
    rest = <<>> \/ (/\ tile_check(shp, Head(rest))
                    /\ Head(rest).axis > last_axis
                    /\ tile_args_ok(shp, Tail(rest), Head(rest).axis))

RECURSIVE tiles_total(_)
tiles_total(args) == IF args = <<>> THEN 0 ELSE Len(Head(args).tiles) + tiles_total(Tail(args))

RECURSIVE tile_be_push_late(_, _, _)
\* A walk that emits each tile before dividing.
tile_be_push_late(st, tiles, s) ==
    IF ~st.m.ok \/ tiles = <<>> THEN st
    ELSE IF Head(tiles) = 0 THEN [st EXCEPT !.m = panic(st.m)]
    ELSE tile_be_push_late(push(st, Head(tiles), s), Tail(tiles), trunc_div(s, Head(tiles)))

RECURSIVE tile_be_push(_, _, _)
\* BigEndian: s /= t; push(t, s).  Division by a zero tile panics.
tile_be_push(st, tiles, s) ==
    IF ~st.m.ok \/ tiles = <<>> THEN st
    ELSE IF Head(tiles) = 0 THEN [st EXCEPT !.m = panic(st.m)]
    ELSE LET s1 == trunc_div(s, Head(tiles))
         IN tile_be_push(push(st, Head(tiles), s1), Tail(tiles), s1)

RECURSIVE tile_le_push_flat(_, _, _)
\* A walk that gives every tile the stride of the axis.
tile_le_push_flat(st, tiles, s) ==
    IF ~st.m.ok \/ tiles = <<>> THEN st
    ELSE tile_le_push_flat(push(st, Head(tiles), s), Tail(tiles), s)

RECURSIVE tile_le_push(_, _, _)
\* LittleEndian: push(t, s); s *= t.
tile_le_push(st, tiles, s) ==
    IF ~st.m.ok \/ tiles = <<>> THEN st
    ELSE tile_le_push(push(st, Head(tiles), s), Tail(tiles), s * Head(tiles))

RECURSIVE tile_loop_swapped(_, _, _, _, _)
\* A loop whose arms are exchanged: BigEndian multiplies, LittleEndian divides.
tile_loop_swapped(st, shp, strd, i, args) ==
    IF ~st.m.ok \/ i >= Len(shp) THEN st
    ELSE IF args # <<>> /\ Head(args).axis = i
    THEN LET a == Head(args)
             d == shp[i + 1]
             s == strd[i + 1]
             st1 == IF a.endian = LittleEndian THEN tile_be_push(st, a.tiles, s * d)
                    ELSE tile_le_push(st, a.tiles, s)
         IN tile_loop_swapped(st1, shp, strd, i + 1, Tail(args))
    ELSE tile_loop_swapped(push(st, shp[i + 1], strd[i + 1]), shp, strd, i + 1, args)

RECURSIVE tile_loop(_, _, _, _, _)
tile_loop(st, shp, strd, i, args) ==
    IF ~st.m.ok \/ i >= Len(shp) THEN st
    ELSE IF args # <<>> /\ Head(args).axis = i
    THEN LET a == Head(args)
             d == shp[i + 1]
             s == strd[i + 1]
             st1 == IF a.endian = BigEndian THEN tile_be_push(st, a.tiles, s * d)
                    ELSE tile_le_push(st, a.tiles, s)
         IN tile_loop(st1, shp, strd, i + 1, Tail(args))
    ELSE tile_loop(push(st, shp[i + 1], strd[i + 1]), shp, strd, i + 1, args)

\* ArrayLayout::tile_many
tile_many(l, h, args) ==
    LET shp == shape(l, h)
    IN IF args = <<>> THEN clone(l, h)
       ELSE IF ~tile_check(shp, Head(args)) THEN Aborted(h)
       ELSE IF ~tile_args_ok(shp, Tail(args), Head(args).axis) THEN Aborted(h)
       ELSE LET m0 == set_offset(with_ndim(l.ndim + tiles_total(args) - Len(args), l.N, h),
                                 offset(l, h))
            IN Finish(tile_loop([m |-> m0, i |-> 0], shp, strides(l, h), 0, args).m)

(***************************************************************************)
(* transpose                                                               *)
(***************************************************************************)
\* perm.iter().collect::<BTreeSet<_>>() iterated: the entries ascending, once each.
RECURSIVE sorted_set(_)
sorted_set(S) ==
    IF S = {} THEN <<>>
    ELSE LET x == CHOOSE y \in S : \A z \in S : y <= z
         IN <<x>> \o sorted_set(S \ {x})

Range(s) == {s[k] : k \in DOMAIN s}

\* A set the other way round: axis j of ans takes axis i of self.
transpose_set_inverse(m, shp, strd, i, j) ==
    IF i >= Len(shp) THEN panic(m)
    ELSE set_stride(set_shape(m, j, shp[i + 1]), j, strd[i + 1])

\* The closure set of transpose: axis i of ans takes axis j of self.
transpose_set(m, shp, strd, i, j) ==
    IF j >= Len(shp) THEN panic(m)
    ELSE set_stride(set_shape(m, i, shp[j + 1]), i, strd[j + 1])

RECURSIVE transpose_keep(_, _, _, _, _)
\* for i in from..to { set(i, i) }
transpose_keep(m, shp, strd, from, to) ==
    IF ~m.ok \/ from >= to THEN m
    ELSE transpose_keep(transpose_set(m, shp, strd, from, from), shp, strd, from + 1, to)

RECURSIVE transpose_loop(_, _, _, _, _, _)
transpose_loop(m, shp, strd, perm_, perm, lst) ==
    IF ~m.ok THEN m
    ELSE IF perm_ = <<>> THEN transpose_keep(m, shp, strd, lst, Len(shp))
    ELSE LET i == Head(perm_)
             j == Head(perm)
             m1 == transpose_keep(m, shp, strd, lst, i)
         IN transpose_loop(transpose_set(m1, shp, strd, i, j), shp, strd,
                           Tail(perm_), Tail(perm), i + 1)

\* ArrayLayout::transpose
transpose(l, h, perm) ==
    LET perm_ == sorted_set(Range(perm))
    IN IF Len(perm_) # Len(perm) THEN Aborted(h)
       ELSE Finish(transpose_loop(set_offset(with_ndim(l.ndim, l.N, h), offset(l, h)),
                                  shape(l, h), strides(l, h), perm_, perm, 0))

(***************************************************************************)
(* split and Split::next                                                   *)
(***************************************************************************)
NoSplit == [live |-> FALSE, src |-> 0, axis |-> 0, start |-> 0, parts |-> <<>>]

\* ArrayLayout::split: the assertion, then the Split value borrowing slot src.
split_ok(l, h, axis, parts) == axis < l.ndim /\ shape(l, h)[axis + 1] = Sum(parts)

split(src, axis, parts) ==
    [live |-> TRUE, src |-> src, axis |-> axis, start |-> 0, parts |-> parts]

\* Split::next on a non-empty parts: the iterator after the pull ...
split_advance(it) == [it EXCEPT !.start = it.start + Head(it.parts), !.parts = Tail(it.parts)]

\* ... and the pulled item, src.slice(axis, start, 1, head).
split_item(it, l, h, chk) ==
    slice_many(l, h, <<SliceArg(it.axis, it.start, 1, Head(it.parts))>>, chk)


(***************************************************************************)
(* Queries.                                                                *)
(***************************************************************************)
RECURSIVE offset_forwards_keep_rem(_, _, _)
\* An offset_forwards that never divides rem.
offset_forwards_keep_rem(rem, shp, strd) ==
    IF shp = <<>> THEN 0
    ELSE Head(strd) * (rem % Head(shp)) + offset_forwards_keep_rem(rem, Tail(shp), Tail(strd))

RECURSIVE offset_forwards(_, _, _)
\* The helper of element_offset; rem % d panics when d = 0 (see element_offset).
offset_forwards(rem, shp, strd) ==
    IF shp = <<>> THEN 0
    ELSE Head(strd) * (rem % Head(shp)) + offset_forwards(rem \div Head(shp), Tail(shp), Tail(strd))

\* ArrayLayout::element_offset: [st, val]; a zero extent divides by zero.
element_offset(l, h, index, endian) ==
    LET shp == shape(l, h)
        strd == strides(l, h)
    IN IF \E k \in DOMAIN shp : shp[k] = 0 THEN [st |-> "abort", val |-> 0]
       ELSE [st |-> "ok",
             val |-> offset(l, h) + (IF endian = BigEndian
                                     THEN offset_forwards(index, Rev(shp), Rev(strd))
                                     ELSE offset_forwards(index, shp, strd))]

RECURSIVE range_walk_unsigned(_, _, _, _)
\* A walk that adds every non-zero stride to the end.
range_walk_unsigned(shp, strd, start, end) ==
    IF shp = <<>> THEN <<start, end>>
    ELSE range_walk_unsigned(Tail(shp), Tail(strd), start, end + Head(strd) * (Head(shp) - 1))

RECURSIVE range_walk(_, _, _, _)
\* The for loop of data_range over zip(shape, strides).
range_walk(shp, strd, start, end) ==
    IF shp = <<>> THEN <<start, end>>
    ELSE LET i == Head(shp) - 1
             s == Head(strd)
         IN IF s = 0 THEN range_walk(Tail(shp), Tail(strd), start, end)
            ELSE IF s < 0 THEN range_walk(Tail(shp), Tail(strd), start + s * i, end)
            ELSE range_walk(Tail(shp), Tail(strd), start, end + s * i)

\* ArrayLayout::data_range: <<start, end>> of the inclusive range.
data_range(l, h) == range_walk(shape(l, h), strides(l, h), offset(l, h), offset(l, h))

(***************************************************************************)
(* The state machine: a caller that owns up to NumSlots layouts and at     *)
(* most one Split iterator, and makes one call per step.                   *)
(***************************************************************************)
Live(s) == slots[s].N > 0

\* The fields of the layout in slot s, through the public accessors.
View(s) ==
    [ndim |-> ndim(slots[s]), offset |-> offset(slots[s], heap),
     shape |-> shape(slots[s], heap), strides |-> strides(slots[s], heap)]

Call(op, st, src, dst, args, ret) ==
    [op |-> op, st |-> st, src |-> src, dst |-> dst, args |-> args, ret |-> ret]

\* Every word of a returned layout stays within the model's word range.
InRange(r) ==
    r.st # "ok" \/ (/\ r.l.ndim <= MaxNdim + 2
                    /\ \A x \in Range(as_slice(content(r.l, r.h))) : Abs(x) <= MaxWord)

HasRoom == FreeBlocks(heap) # {}

\* The caller starts with nothing and may make n calls.
Start(n) ==
    /\ slots = [s \in Slots |-> NoLayout]
    /\ heap = [b \in 1..MaxBlocks |-> FreeBlk]
    /\ iter = NoSplit
    /\ last = Call("init", "ok", 0, 0, <<>>, 0)
    /\ fault = {}
    /\ fuel = n

\* A returned layout goes to the caller's first empty slot.
FirstEmpty(dst) == ~Live(dst) /\ \A s \in Slots : s < dst => Live(s)

\* A call that returns a layout into the empty slot dst, or fails.
Returns(op, src, dst, args, r) ==
    /\ fuel > 0
    /\ FirstEmpty(dst)
    /\ HasRoom
    /\ InRange(r)
    /\ slots' = IF r.st = "ok" THEN [slots EXCEPT ![dst] = r.l] ELSE slots
    /\ heap' = r.h
    /\ last' = Call(op, r.st, src, IF r.st = "ok" THEN dst ELSE 0, args, 0)
    /\ fuel' = fuel - 1
    /\ UNCHANGED <<iter, fault>>

\* A query: it returns a number and leaves every layout alone.
Answers(op, src, args, st, ret) ==
    /\ fuel > 0
    /\ last' = Call(op, st, src, 0, args, ret)
    /\ fuel' = fuel - 1
    /\ UNCHANGED <<slots, heap, iter, fault>>

New(Inputs, Ns) ==
    /\ fuel > 0
    /\ \E dst \in Slots, in \in Inputs, N \in Ns :
        Returns("new", 0, dst, [shape |-> in.shape, strides |-> in.strides,
                                offset |-> in.offset, N |-> N],
                new(in.shape, in.strides, in.offset, N, heap))

NewContiguous(Inputs, Ns) ==
    /\ fuel > 0
    /\ \E dst \in Slots, in \in Inputs, N \in Ns :
        Returns("new_contiguous", 0, dst,
                [shape |-> in.shape, endian |-> in.endian,
                 element_size |-> in.element_size, N |-> N],
                new_contiguous(in.shape, in.endian, in.element_size, N, heap))

Clone ==
    /\ fuel > 0
    /\ \E src \in Slots, dst \in Slots :
        /\ Live(src)
        /\ Returns("clone", src, dst, <<>>, clone(slots[src], heap))

ToInlineSize ==
    /\ fuel > 0
    /\ \E src \in Slots, dst \in Slots, M \in 1..(MaxCap + 1) :
        /\ Live(src)
        /\ Returns("to_inline_size", src, dst, M, to_inline_size(slots[src], M, heap))

IndexMany(Args) ==
    /\ fuel > 0
    /\ \E src \in Slots, dst \in Slots, args \in Args :
        /\ Live(src)
        /\ Returns("index_many", src, dst, args, index_many(slots[src], heap, args))

SliceMany(Args) ==
    /\ fuel > 0
    /\ \E src \in Slots, dst \in Slots, args \in Args, chk \in BOOLEAN :
        /\ Live(src)
        /\ Returns("slice_many", src, dst, args, slice_many(slots[src], heap, args, chk))

BroadcastMany(Args) ==
    /\ fuel > 0
    /\ \E src \in Slots, dst \in Slots, args \in Args :
        /\ Live(src)
        /\ Returns("broadcast_many", src, dst, args, broadcast_many(slots[src], heap, args))

MergeMany(Args) ==
    /\ fuel > 0
    /\ \E src \in Slots, dst \in Slots, args \in Args, flip \in BOOLEAN :
        /\ Live(src)
        /\ Returns("merge_many", src, dst, args, merge_many(slots[src], heap, args, flip))

TileMany(Args) ==
    /\ fuel > 0
    /\ \E src \in Slots, dst \in Slots, args \in Args :
        /\ Live(src)
        /\ Returns("tile_many", src, dst, args, tile_many(slots[src], heap, args))

Transpose(Perms) ==
    /\ fuel > 0
    /\ \E src \in Slots, dst \in Slots, perm \in Perms :
        /\ Live(src)
        /\ Returns("transpose", src, dst, perm, transpose(slots[src], heap, perm))

\* split: the assertion, then the iterator borrows slot src.
SplitBegin(Args) ==
    /\ fuel > 0
    /\ \E src \in Slots, a \in Args :
        /\ fuel > 0
        /\ Live(src)
        /\ ~iter.live
        /\ LET good == split_ok(slots[src], heap, a.axis, a.parts)
           IN /\ iter' = IF good THEN split(src, a.axis, a.parts) ELSE iter
              /\ last' = Call("split", IF good THEN "ok" ELSE "abort", src, 0, a, 0)
        /\ fuel' = fuel - 1
        /\ UNCHANGED <<slots, heap, fault>>

\* Split::next: a sub-layout into dst, or end-of-sequence once parts is empty.
\* Pulls are bounded by the parts left, so they need no fuel.
SplitNext ==
    \E dst \in Slots, chk \in BOOLEAN :
        /\ iter.live
        /\ FirstEmpty(dst)
        /\ HasRoom
        /\ UNCHANGED <<fault, fuel>>
        /\ IF iter.parts = <<>>
           THEN /\ last' = Call("next", "none", iter.src, 0, iter, 0)
                /\ UNCHANGED <<slots, heap, iter>>
           ELSE LET r == split_item(iter, slots[iter.src], heap, chk)
                IN /\ InRange(r)
                   /\ iter' = split_advance(iter)
                   /\ slots' = IF r.st = "ok" THEN [slots EXCEPT ![dst] = r.l] ELSE slots
                   /\ heap' = r.h
                   /\ last' = Call("next", r.st, iter.src, IF r.st = "ok" THEN dst ELSE 0, iter, 0)

\* The iterator goes out of scope; its borrow of the source ends.
SplitEnd ==
    /\ iter.live
    /\ iter' = NoSplit
    /\ last' = Call("split_end", "ok", iter.src, 0, <<>>, 0)
    /\ UNCHANGED <<slots, heap, fault, fuel>>

\* The owner drops the layout in slot s (not while the iterator borrows it).
Drop ==
    /\ fuel > 0
    /\ \E s \in Slots :
        /\ fuel > 0
        /\ Live(s)
        /\ ~(iter.live /\ iter.src = s)
        /\ fault' = fault \cup drop_fault(slots[s], heap)
        /\ heap' = drop(slots[s], heap)
        /\ slots' = [slots EXCEPT ![s] = NoLayout]
        /\ last' = Call("drop", "ok", s, 0, <<>>, 0)
        /\ fuel' = fuel - 1
        /\ UNCHANGED iter

Eq ==
    /\ fuel > 0
    /\ \E a \in Slots, b \in Slots :
        /\ Live(a) /\ Live(b)
        /\ slots[a].N = slots[b].N
        /\ Answers("eq", a, b, "ok", eq(slots[a], slots[b], heap))

NumElements ==
    /\ fuel > 0
    /\ \E s \in Slots :
        /\ Live(s)
        /\ Answers("num_elements", s, <<>>, "ok", num_elements(slots[s], heap))

ElementOffset(maxi) ==
    /\ fuel > 0
    /\ \E s \in Slots, e \in Endian :
        /\ Live(s)
        /\ \E index \in 0..Min2(num_elements(slots[s], heap), maxi) :
              LET r == element_offset(slots[s], heap, index, e)
              IN Answers("element_offset", s, [index |-> index, endian |-> e], r.st, r.val)

DataRange ==
    /\ fuel > 0
    /\ \E s \in Slots :
        /\ Live(s)
        /\ Answers("data_range", s, <<>>, "ok", data_range(slots[s], heap))


(***************************************************************************)
(* The inputs the caller draws from.                                       *)
(***************************************************************************)
NoHeap == [b \in 1..1 |-> FreeBlk]

\* The strides new_contiguous gives a shape.
ContiguousStrides(shp, e, es) ==
    LET r == new_contiguous(shp, e, es, Len(shp) + 1, NoHeap) IN strides(r.l, r.h)

\* A stride vector and the ones with one axis reversed or repeated.
Variants(strd) ==
    {strd} \cup {[strd EXCEPT ![k] = f * @] : k \in DOMAIN strd, f \in {-1, 0}}

Input(shp, strd, off) == [shape |-> shp, strides |-> strd, offset |-> off]

ContiguousInput(shp, e, es) == [shape |-> shp, endian |-> e, element_size |-> es]

Axes == 0..MaxNdim

\* Argument lists: every single argument of S, and the pairs of the arguments in P.
Lists(S, P) == SeqUpTo(S, 1) \cup [1..2 -> P]

\* Calls of new whose shape and strides differ in length.
MismatchedInputs ==
    {Input(shp, Zeros(k), 0) : shp \in SeqUpTo(1..1, MaxNdim), k \in 0..MaxNdim}

(***************************************************************************)
(* Spec: the life of a few layouts.  The caller builds layouts of every    *)
(* rank from 0 to MaxNdim, clones, converts, transforms, splits and drops  *)
(* them, MaxCalls calls deep.                                              *)
(***************************************************************************)
\* Shapes of every rank: a first axis of any extent, the others of extent 2.
LifeShapes == {shp \in SeqUpTo(1..MaxDim, MaxNdim) : \A i \in 2..Len(shp) : shp[i] = 2}

LifeInputs ==
    {Input(shp, ContiguousStrides(shp, e, 1), 1) : shp \in LifeShapes, e \in Endian}
    \cup {Input(<<1>>, <<>>, 0)}

LifeIndexArgs == {<<IndexArg(0, i)>> : i \in {0, MaxDim}} \cup {<<IndexArg(0, 0), IndexArg(0, 0)>>}

LifeSliceArgs == {<<SliceArg(0, st, -1, 1)>> : st \in {0}} \cup {<<SliceArg(1, MaxDim, 1, 1)>>}

LifeBroadcastArgs == {<<>>, <<BroadcastArg(0, MaxDim + 1)>>}

LifeMergeArgs == {<<MergeArg(0, 2, e)>> : e \in {BigEndian}}

LifeTileArgs == {<<TileArg(0, LittleEndian, t)>> : t \in {<<1, 2>>, <<2, 2>>}}

LifePerms == {<<1, 0>>, <<0, 0>>}

LifeSplitArgs == {[axis |-> 0, parts |-> p] : p \in {<<1, 1>>, <<2, 0>>, <<1>>}}

Init == Start(MaxCalls)

Next ==
    \/ New(LifeInputs, Caps)
    \/ NewContiguous({ContiguousInput(shp, LittleEndian, 2) : shp \in LifeShapes}, Caps)
    \/ Clone
    \/ ToInlineSize
    \/ IndexMany(LifeIndexArgs)
    \/ SliceMany(LifeSliceArgs)
    \/ BroadcastMany(LifeBroadcastArgs)
    \/ MergeMany(LifeMergeArgs)
    \/ TileMany(LifeTileArgs)
    \/ Transpose(LifePerms)
    \/ SplitBegin(LifeSplitArgs)
    \/ SplitNext
    \/ SplitEnd
    \/ Drop
    \/ Eq

Spec == Init /\ [][Next]_vars


(***************************************************************************)
(* Claims checked under Spec.                                              *)
(***************************************************************************)
HeapStored(s) == Live(s) /\ slots[s].ndim > slots[s].N

\* C3: no transform, split pull or query changes its receiver: every layout the
\* caller keeps has the same ndim, offset, shape and strides after a call as
\* before it (merge_many reporting no result included), and a returned layout
\* shares no heap block with the receiver.
ReceiverUnchanged ==
    [][/\ \A s \in Slots :
             (Live(s) /\ ~(last'.op = "drop" /\ last'.src = s)) => View(s)' = View(s)
       /\ (last'.src # 0 /\ last'.dst # 0 /\ slots'[last'.dst].ptr # 0)
             => slots'[last'.dst].ptr # slots'[last'.src].ptr]_vars

\* A broadcast returned a layout that differs from its heap-stored receiver.
ReceiverUnchangedWitness ==
    /\ last.op = "broadcast_many" /\ last.st = "ok"
    /\ HeapStored(last.src)
    /\ View(last.dst) # View(last.src)

\* C6: a layout owns a heap block iff ndim > N, no block has two owners, and the
\* live blocks are exactly the blocks of the live layouts with ndim > N: nothing
\* is freed twice and nothing leaks, whatever the calls returned.
HeapOwnership ==
    /\ fault = {}
    /\ \A s \in Slots : Live(s) =>
          /\ (slots[s].ndim > slots[s].N) <=> (slots[s].ptr # 0)
          /\ slots[s].ptr # 0 => Blk(heap, slots[s].ptr).live
    /\ \A s, t \in Slots : (HeapStored(s) /\ HeapStored(t) /\ s # t) => slots[s].ptr # slots[t].ptr
    /\ LiveBlocks(heap) = {slots[s].ptr : s \in {t \in Slots : HeapStored(t)}}

\* merge_many reported no result after allocating a heap block for its answer.
HeapOwnershipWitness ==
    /\ last.op = "merge_many" /\ last.st = "none"
    /\ slots[last.src].ndim - 1 > slots[last.src].N
    /\ Cardinality(LiveBlocks(heap)) = 1


(***************************************************************************)
(* SpecT: one layout, built by new from any of the seed layouts, and one   *)
(* transform of it with any of the argument lists.                         *)
(***************************************************************************)
Shapes == SeqUpTo(0..MaxDim, MaxNdim)

\* Seed layouts: the big-endian contiguous layout of each shape, its one-axis
\* variants, and the little-endian contiguous layout.
SeedInputs ==
    UNION {{Input(shp, strd, 2) :
               strd \in Variants(ContiguousStrides(shp, BigEndian, 1))
                        \cup {ContiguousStrides(shp, LittleEndian, 1)}} : shp \in Shapes}

IndexArgs ==
    Lists({IndexArg(a, i) : a \in Axes, i \in 0..MaxDim},
          {IndexArg(a, i) : a \in Axes, i \in {0, 1}})

SliceArgs ==
    Lists({SliceArg(a, st, sp, n) : a \in Axes, st \in 0..MaxDim, sp \in (-2)..2, n \in {1, MaxDim + 1}},
          {SliceArg(a, 0, -1, 1) : a \in Axes})

BroadcastArgs ==
    Lists({BroadcastArg(a, t) : a \in Axes, t \in {0, 1, MaxDim + 1}},
          {BroadcastArg(a, MaxDim + 1) : a \in Axes})

MergeArgs ==
    Lists({MergeArg(st, n, e) : st \in Axes, n \in 0..MaxNdim, e \in Endian \cup {FreeOrder}},
          {MergeArg(st, n, BigEndian) : st \in {0, 1}, n \in {0, 2}})

Tilings == SeqUpTo(1..MaxDim, 2)

TileArgs ==
    Lists({TileArg(a, e, t) : a \in Axes, e \in Endian, t \in Tilings},
          {TileArg(a, LittleEndian, t) : a \in {0, 1}, t \in {<<>>, <<1, MaxDim>>}})

Perms == SeqUpTo(Axes, 2) \cup [1..MaxNdim -> 0..(MaxNdim - 1)]

InitT == Start(TransformCalls)

NextT ==
    \/ New(SeedInputs, {MaxCap})
    \/ NewContiguous({ContiguousInput(shp, LittleEndian, 2) : shp \in LifeShapes}, {MaxCap})
    \/ Clone
    \/ ToInlineSize
    \/ IndexMany(IndexArgs)
    \/ SliceMany(SliceArgs)
    \/ BroadcastMany(BroadcastArgs)
    \/ MergeMany(MergeArgs)
    \/ TileMany(TileArgs)
    \/ Transpose(Perms)

SpecT == InitT /\ [][NextT]_vars

\* The words a layout's fields live in: a live block of exactly 1 + 2*ndim
\* words when ndim > N, the 1 + 2*N inline words otherwise.
StorageFits(l) ==
    IF l.ndim > l.N
    THEN Blk(heap, l.ptr).live /\ Len(Blk(heap, l.ptr).w) = 1 + 2 * l.ndim
    ELSE l.ptr = 0 /\ Len(l.inl) = 1 + 2 * l.N

RECURSIVE SumMaxLen1(_)
SumMaxLen1(args) == IF args = <<>> THEN 0 ELSE Max2(Head(args).len, 1) + SumMaxLen1(Tail(args))

RECURSIVE SumTiles(_)
SumTiles(args) == IF args = <<>> THEN 0 ELSE Len(Head(args).tiles) + SumTiles(Tail(args))

\* C4: every layout has storage for exactly ndim extents and ndim strides, and
\* a transform's result has ndim - #args axes (index_many), ndim axes
\* (slice_many, broadcast_many, transpose), ndim + sum(len(tiles)) - #args
\* axes (tile_many), ndim + #args - sum(max(len, 1)) axes (merge_many).
NdimInvariant ==
    /\ \A s \in Slots : Live(s) =>
          /\ StorageFits(slots[s])
          /\ Len(shape(slots[s], heap)) = ndim(slots[s])
          /\ Len(strides(slots[s], heap)) = ndim(slots[s])
    /\ (last.st = "ok" /\ last.dst # 0 /\ last.src # 0) =>
          LET n == ndim(slots[last.src])
              r == ndim(slots[last.dst])
          IN /\ last.op = "index_many" => r = n - Len(last.args)
             /\ last.op \in {"slice_many", "broadcast_many", "transpose", "clone", "to_inline_size"}
                   => r = n
             /\ last.op = "tile_many" => r = n + SumTiles(last.args) - Len(last.args)
             /\ last.op = "merge_many" => r = n + Len(last.args) - SumMaxLen1(last.args)

\* A merge of two ranges, one of them of length 0, returned a layout of lower rank.
NdimInvariantWitness ==
    /\ last.op = "merge_many" /\ last.st = "ok"
    /\ Len(last.args) = 2
    /\ \E k \in 1..2 : last.args[k].len = 0
    /\ ndim(slots[last.dst]) < ndim(slots[last.src])


(***************************************************************************)
(* SpecC: construction.  The caller builds up to two layouts with new,     *)
(* from equal-length and from mismatched inputs, clones, converts,         *)
(* compares and drops them.                                                *)
(***************************************************************************)
CtorShapes == SeqUpTo(1..MaxDim, MaxNdim - 1)

CtorInputs ==
    UNION {{Input(shp, strd, off) : strd \in [1..Len(shp) -> {-1, MaxStride}], off \in {-1, 1}}
              : shp \in CtorShapes}

InitC == Start(CtorCalls)

NextC ==
    \/ New(CtorInputs \cup MismatchedInputs, Caps)
    \/ Clone
    \/ ToInlineSize
    \/ Eq
    \/ Drop

SpecC == InitC /\ [][NextC]_vars

\* C1: new, given a shape and strides of equal length, returns a layout whose
\* ndim, offset, shape and strides are the ones given, stored inline when
\* ndim <= N and in a heap block when ndim > N.
NewReturnsGiven ==
    (last.op = "new" /\ Len(last.args.shape) = Len(last.args.strides)) =>
        /\ last.st = "ok"
        /\ View(last.dst) = [ndim |-> Len(last.args.shape), offset |-> last.args.offset,
                             shape |-> last.args.shape, strides |-> last.args.strides]
        /\ slots[last.dst].N = last.args.N
        /\ StorageFits(slots[last.dst])

\* new returned a heap-stored layout with a negative offset and a negative stride.
NewReturnsGivenWitness ==
    /\ last.op = "new" /\ last.st = "ok"
    /\ HeapStored(last.dst)
    /\ offset(slots[last.dst], heap) < 0
    /\ \E i \in 1..ndim(slots[last.dst]) : strides(slots[last.dst], heap)[i] < 0

\* C2: new with shape and strides of different lengths aborts: the caller gets
\* no layout, and no block stays allocated for the call.
NewMismatchAborts ==
    [][(last'.op = "new" /\ Len(last'.args.shape) # Len(last'.args.strides)) =>
          /\ last'.st = "abort" /\ last'.dst = 0
          /\ slots' = slots
          /\ LiveBlocks(heap') = LiveBlocks(heap)]_vars

\* new was called with a shape longer than the strides, beyond the inline capacity.
NewMismatchAbortsWitness ==
    /\ last.op = "new" /\ last.st = "abort"
    /\ Len(last.args.shape) > Len(last.args.strides)
    /\ Len(last.args.shape) > last.args.N

\* C5: two layouts of the same capacity are equal iff they have the same ndim,
\* offset, shape and strides, and a clone is equal to its original.
StructuralEq ==
    /\ last.op = "eq" => (last.ret <=> View(last.src) = View(last.args))
    /\ (last.op = "clone" /\ last.st = "ok") =>
          /\ eq(slots[last.src], slots[last.dst], heap)
          /\ View(last.src) = View(last.dst)

\* Two layouts that differ only in the stride of an axis of extent 1 compared unequal.
StructuralEqWitness ==
    /\ last.op = "eq" /\ last.ret = FALSE
    /\ LET a == View(last.src)
           b == View(last.args)
       IN /\ a.ndim = b.ndim /\ a.offset = b.offset /\ a.shape = b.shape
          /\ \E i \in 1..a.ndim :
                /\ a.shape[i] = 1 /\ a.strides[i] # b.strides[i]
                /\ \A j \in 1..a.ndim : j # i => a.strides[j] = b.strides[j]


(***************************************************************************)
(* SpecQ: queries.  The caller builds one layout, contiguous or strided,   *)
(* and asks for its element count, element offsets and data range.         *)
(***************************************************************************)
QueryShapes == SeqUpTo(0..MaxExtent, MaxNdim)

QueryContiguous ==
    {ContiguousInput(shp, e, es) : shp \in QueryShapes, e \in Endian, es \in {1, MaxElementSize}}

QueryStrided ==
    UNION {{Input(shp, strd, 5) : strd \in [1..Len(shp) -> (-MaxStride)..MaxStride]}
              : shp \in Shapes}
    \cup {Input(<<2, 3, 4>>, <<12, -4, 1>>, 20)}

Fresh == \A s \in Slots : ~Live(s)

BuildContiguous == Fresh /\ NewContiguous(QueryContiguous, {MaxCap})

BuildStrided == Fresh /\ New(QueryStrided, {MaxCap})

InitQ == Start(QueryCalls)

NextQ ==
    \/ BuildContiguous
    \/ BuildStrided
    \/ NumElements
    \/ ElementOffset(MaxIndex)
    \/ DataRange

SpecQ == InitQ /\ [][NextQ]_vars

\* C7: new_contiguous returns offset 0, the shape given, and strides[i] =
\* element_size * product(shape[0..i]) for LittleEndian, element_size *
\* product(shape[i+1..ndim]) for BigEndian.
ContiguousStridesRule ==
    last.op = "new_contiguous" =>
        /\ last.st = "ok"
        /\ LET v == View(last.dst)
               a == last.args
               n == Len(a.shape)
           IN /\ v.ndim = n /\ v.offset = 0 /\ v.shape = a.shape
              /\ \A i \in 1..n :
                    v.strides[i] = a.element_size *
                        (IF a.endian = LittleEndian
                         THEN Prod(SubSeq(a.shape, 1, i - 1))
                         ELSE Prod(SubSeq(a.shape, i + 1, n)))

\* A big-endian contiguous layout of rank 3 with three different strides.
ContiguousStridesRuleWitness ==
    /\ last.op = "new_contiguous" /\ last.st = "ok"
    /\ last.args.endian = BigEndian /\ last.args.element_size = MaxElementSize
    /\ LET st == strides(slots[last.dst], heap)
       IN Len(st) = 3 /\ st[1] > st[2] /\ st[2] > st[3] /\ st[3] = MaxElementSize

ExampleCall(e) ==
    /\ last.op = "new_contiguous"
    /\ last.args.shape = <<2, 3, 4>> /\ last.args.element_size = 4
    /\ last.args.endian = e

\* C8 as stated: for shape [2,3,4] and element size 4, BigEndian yields strides
\* [24,8,4], the reverse of LittleEndian's [4,8,24].
BigEndianReversesLittle ==
    /\ ExampleCall(BigEndian) => strides(slots[last.dst], heap) = <<24, 8, 4>>
    /\ ExampleCall(LittleEndian) => strides(slots[last.dst], heap) = <<4, 8, 24>>

\* C8: for shape [2,3,4] and element size 4, BigEndian yields strides
\* [48,16,4] and LittleEndian yields [4,8,24]; the one is not the reverse of
\* the other.
BigEndianExample ==
    /\ ExampleCall(BigEndian) => strides(slots[last.dst], heap) = <<48, 16, 4>>
    /\ ExampleCall(LittleEndian) => strides(slots[last.dst], heap) = <<4, 8, 24>>

BigEndianExampleWitness == ExampleCall(BigEndian) /\ last.st = "ok"

AllExtentsPositive(shp) == \A k \in DOMAIN shp : shp[k] >= 1

\* C9: on a layout that new_contiguous(shape, e, element_size) builds from
\* extents >= 1, element_offset(i, e) = i * element_size for every
\* i < num_elements().
ContiguousOffsets ==
    last.op = "element_offset" =>
        LET v == View(last.src)
        IN \A es \in {1, MaxElementSize} :
              (/\ AllExtentsPositive(v.shape)
               /\ v.offset = 0
               /\ v.strides = ContiguousStrides(v.shape, last.args.endian, es)
               /\ last.args.index < num_elements(slots[last.src], heap))
              => (last.st = "ok" /\ last.ret = last.args.index * es)

\* element_offset(22, BigEndian) on the big-endian layout of [2,3,4], element size 4, is 88.
ContiguousOffsetsWitness ==
    /\ last.op = "element_offset" /\ last.st = "ok"
    /\ last.args.index = 22 /\ last.args.endian = BigEndian
    /\ View(last.src).shape = <<2, 3, 4>>
    /\ View(last.src).strides = ContiguousStrides(<<2, 3, 4>>, BigEndian, 4)
    /\ last.ret = 88

\* The positions element_offset addresses over all flat indices.
Addressed(l, e) ==
    {element_offset(l, heap, i, e).val : i \in 0..(num_elements(l, heap) - 1)}

\* C10: for extents >= 1, data_range() is the inclusive interval from the
\* least to the greatest position element_offset addresses, under either
\* endian.
DataRangeExact ==
    (last.op = "data_range" /\ AllExtentsPositive(View(last.src).shape)) =>
        \A e \in Endian :
            LET pos == Addressed(slots[last.src], e)
            IN /\ last.ret[1] \in pos /\ last.ret[2] \in pos
               /\ \A p \in pos : last.ret[1] <= p /\ p <= last.ret[2]

\* data_range() of new([2,3,4], [12,-4,1], 20) is 12..=35.
DataRangeExactWitness ==
    /\ last.op = "data_range"
    /\ View(last.src).shape = <<2, 3, 4>> /\ View(last.src).strides = <<12, -4, 1>>
    /\ last.ret = <<12, 35>>


(***************************************************************************)
(* The transforms one by one, under SpecT.                                 *)
(***************************************************************************)
\* The axes an argument list names (0-based).
ArgAxes(args) == {args[k].axis : k \in DOMAIN args}

\* The argument axes exist and are strictly ascending.
AxesAscending(n, args) ==
    \A k \in DOMAIN args :
        /\ args[k].axis < n
        /\ k > 1 => args[k - 1].axis < args[k].axis

ValidIndexArgs(shp, args) ==
    /\ AxesAscending(Len(shp), args)
    /\ \A k \in DOMAIN args : args[k].index < shp[args[k].axis + 1]

RECURSIVE DropAxes(_, _, _)
\* seq without the entries at the 0-based positions in S; i is the position of Head(seq).
DropAxes(seq, S, i) ==
    IF seq = <<>> THEN <<>>
    ELSE (IF i \in S THEN <<>> ELSE <<Head(seq)>>) \o DropAxes(Tail(seq), S, i + 1)

\* The caller's layouts and the blocks they own, with nothing else allocated.
NothingReturned ==
    /\ last.dst = 0
    /\ LiveBlocks(heap) = {slots[s].ptr : s \in {t \in Slots : HeapStored(t)}}

\* C11: index_many with valid args (axes strictly ascending, each index below
\* its extent) returns the receiver without the indexed axes, the others in
\* order, at offset + sum(index * strides[axis]); with no args, the receiver.
IndexRemovesAxes ==
    (last.op = "index_many" /\ ValidIndexArgs(View(last.src).shape, last.args)) =>
        /\ last.st = "ok"
        /\ LET v == View(last.src)
               a == last.args
           IN View(last.dst) =
                 [ndim |-> v.ndim - Len(a),
                  offset |-> v.offset + Sum([k \in DOMAIN a |-> a[k].index * v.strides[a[k].axis + 1]]),
                  shape |-> DropAxes(v.shape, ArgAxes(a), 0),
                  strides |-> DropAxes(v.strides, ArgAxes(a), 0)]

\* Two axes were indexed, one at a non-zero index, and the offset moved.
IndexRemovesAxesWitness ==
    /\ last.op = "index_many" /\ last.st = "ok"
    /\ Len(last.args) = 2
    /\ \E k \in 1..2 : last.args[k].index > 0
    /\ View(last.dst).offset # View(last.src).offset
    /\ View(last.dst).ndim = 1

\* C12: index_many aborts and returns no layout when an argument, the first or
\* a later one, names an axis >= ndim or an index >= shape[axis], or the axes
\* are not strictly ascending.
IndexInvalidAborts ==
    (last.op = "index_many" /\ ~ValidIndexArgs(View(last.src).shape, last.args)) =>
        (last.st = "abort" /\ NothingReturned)

\* The first argument was valid, the second was not.
IndexInvalidAbortsWitness ==
    /\ last.op = "index_many" /\ last.st = "abort"
    /\ Len(last.args) = 2
    /\ ValidIndexArgs(View(last.src).shape, <<last.args[1]>>)
    /\ last.args[2].axis > last.args[1].axis
    /\ last.args[2].axis < View(last.src).ndim
    /\ View(last.src).ndim > slots[last.src].N


\* The least n with n * b >= a, for a >= 0 and b >= 1.
Ceil(a, b) == CHOOSE n \in 0..a : n * b >= a /\ (n = 0 \/ (n - 1) * b < a)

\* C13: slice(axis, start, step, len) on an existing axis of extent d >= 1 and
\* stride s keeps ndim and the other axes, sets strides[axis] = s * step, and
\* gives, for step > 0 (start < d): extent min(len, ceil((d - start) / step)),
\* offset + start * s; for step = 0 (start < d): extent len, offset + start * s;
\* for step < 0: extent min(len, ceil((min(start, d - 1) + 1) / -step)),
\* offset + min(start, d - 1) * s.
SliceOneAxis ==
    (/\ last.op = "slice_many" /\ Len(last.args) = 1
     /\ last.args[1].axis < View(last.src).ndim
     /\ View(last.src).shape[last.args[1].axis + 1] >= 1
     /\ last.args[1].step >= 0 => last.args[1].start < View(last.src).shape[last.args[1].axis + 1])
    => /\ last.st = "ok"
       /\ LET v == View(last.src)
              a == last.args[1]
              k == a.axis + 1
              d == v.shape[k]
              s == v.strides[k]
              from == IF a.step < 0 THEN Min2(a.start, d - 1) ELSE a.start
              n == IF a.step > 0 THEN Min2(a.len, Ceil(d - a.start, a.step))
                   ELSE IF a.step = 0 THEN a.len
                   ELSE Min2(a.len, Ceil(from + 1, -a.step))
          IN View(last.dst) = [ndim |-> v.ndim,
                               offset |-> v.offset + from * s,
                               shape |-> [v.shape EXCEPT ![k] = n],
                               strides |-> [v.strides EXCEPT ![k] = s * a.step]]

\* A slice with a negative step whose start was clamped to d - 1 and whose
\* length was cut by the extent.
SliceOneAxisWitness ==
    /\ last.op = "slice_many" /\ last.st = "ok" /\ Len(last.args) = 1
    /\ last.args[1].axis < View(last.src).ndim
    /\ last.args[1].step < 0
    /\ last.args[1].start >= View(last.src).shape[last.args[1].axis + 1]
    /\ View(last.dst).shape[last.args[1].axis + 1] < last.args[1].len
    /\ View(last.dst).offset # View(last.src).offset

\* C14: slice_many aborts and returns no layout whenever an argument, the
\* first or only one included, names an axis >= ndim, or the axes are not
\* strictly ascending.
SliceInvalidAborts ==
    (last.op = "slice_many" /\ ~AxesAscending(View(last.src).ndim, last.args)) =>
        (last.st = "abort" /\ NothingReturned)

\* A slice of an axis that does not exist returned a copy of the receiver.
SliceMissingAxisReturns ==
    /\ last.op = "slice_many" /\ last.st = "ok" /\ Len(last.args) = 1
    /\ last.args[1].axis >= View(last.src).ndim
    /\ View(last.dst) = View(last.src)


RECURSIVE BroadcastEach(_, _, _)
\* The arguments applied in order to (shp, strd): each needs an axis of
\* extent 1 or stride 0, and makes it (times, 0).
BroadcastEach(shp, strd, args) ==
    IF args = <<>> THEN [ok |-> TRUE, shape |-> shp, strides |-> strd]
    ELSE LET k == Head(args).axis + 1
         IN IF k <= Len(shp) /\ (shp[k] = 1 \/ strd[k] = 0)
            THEN BroadcastEach([shp EXCEPT ![k] = Head(args).times],
                               [strd EXCEPT ![k] = 0], Tail(args))
            ELSE [ok |-> FALSE, shape |-> shp, strides |-> strd]

\* C15: broadcast_many aborts unless each target axis, when its argument is
\* applied, has extent 1 or stride 0; otherwise each target axis becomes
\* (times, 0) for any times, and ndim, the offset and the other axes stay.
BroadcastSetsAxis ==
    last.op = "broadcast_many" =>
        LET v == View(last.src)
            e == BroadcastEach(v.shape, v.strides, last.args)
        IN IF e.ok
           THEN /\ last.st = "ok"
                /\ View(last.dst) = [ndim |-> v.ndim, offset |-> v.offset,
                                     shape |-> e.shape, strides |-> e.strides]
           ELSE last.st = "abort" /\ NothingReturned

\* Two different axes of a heap-stored layout were broadcast, one of them
\* an axis of extent above 1 and stride 0.
BroadcastSetsAxisWitness ==
    /\ last.op = "broadcast_many" /\ last.st = "ok" /\ Len(last.args) = 2
    /\ last.args[1].axis # last.args[2].axis
    /\ HeapStored(last.src)
    /\ \E k \in 1..2 : View(last.src).shape[last.args[k].axis + 1] > 1
    /\ View(last.dst).shape # View(last.src).shape


\* perm in ascending order, for a perm of unique entries.
Ascending(perm) ==
    [k \in DOMAIN perm |->
        CHOOSE x \in Range(perm) : Cardinality({y \in Range(perm) : y < x}) = k - 1]

UniqueEntries(perm) == Cardinality(Range(perm)) = Len(perm)

\* The (extent, stride) pairs of a layout and how often each occurs.
AxisPairs(v) == [i \in 1..v.ndim |-> <<v.shape[i], v.strides[i]>>]

SamePairs(v, w) ==
    /\ v.ndim = w.ndim
    /\ \A p \in Range(AxisPairs(v)) \cup Range(AxisPairs(w)) :
          Cardinality({i \in 1..v.ndim : AxisPairs(v)[i] = p})
              = Cardinality({i \in 1..w.ndim : AxisPairs(w)[i] = p})

\* C16: transpose(perm) with unique entries below ndim gives axis sorted[k] of
\* the result the extent and stride of the receiver's axis perm[k], keeps the
\* unlisted axes and the offset, so the result's (extent, stride) pairs are a
\* permutation of the receiver's; a perm with a repeated entry aborts.
TransposeRemaps ==
    last.op = "transpose" =>
        LET v == View(last.src)
            perm == last.args
        IN /\ ~UniqueEntries(perm) => (last.st = "abort" /\ NothingReturned)
           /\ (UniqueEntries(perm) /\ \A k \in DOMAIN perm : perm[k] < v.ndim) =>
                 /\ last.st = "ok"
                 /\ LET r == View(last.dst)
                        sorted == Ascending(perm)
                    IN /\ r.ndim = v.ndim /\ r.offset = v.offset
                       /\ \A k \in DOMAIN perm :
                             /\ r.shape[sorted[k] + 1] = v.shape[perm[k] + 1]
                             /\ r.strides[sorted[k] + 1] = v.strides[perm[k] + 1]
                       /\ \A i \in 1..v.ndim : (i - 1) \notin Range(perm) =>
                             r.shape[i] = v.shape[i] /\ r.strides[i] = v.strides[i]
                       /\ SamePairs(r, v)

\* A rotation of three axes changed both the shape and the strides.
TransposeRemapsWitness ==
    /\ last.op = "transpose" /\ last.st = "ok"
    /\ last.args = <<1, 2, 0>>
    /\ View(last.dst).shape # View(last.src).shape
    /\ View(last.dst).strides # View(last.src).strides
    /\ View(last.dst).shape[3] = View(last.src).shape[1]


(***************************************************************************)
(* Split, under Spec.                                                      *)
(***************************************************************************)
\* C17: after split(axis, parts) with sum(parts) = shape[axis], parts possibly
\* containing 0, the pulls yield one sub-layout per part, in order, and then
\* end-of-sequence for ever; the k-th has extent parts[k] on the axis, the
\* receiver's other extents and strides, and offset + (parts[0] + ... +
\* parts[k-1]) * strides[axis]; no pull aborts.
SplitYieldsParts ==
    /\ iter.live =>
          iter.start + Sum(iter.parts) = View(iter.src).shape[iter.axis + 1]
    /\ last.op = "next" =>
          LET it == last.args
              v == View(last.src)
          IN IF it.parts = <<>>
             THEN last.st = "none" /\ last.dst = 0 /\ iter = it
             ELSE /\ last.st = "ok"
                  /\ iter.parts = Tail(it.parts)
                  /\ View(last.dst) =
                        [ndim |-> v.ndim,
                         offset |-> v.offset + it.start * v.strides[it.axis + 1],
                         shape |-> [v.shape EXCEPT ![it.axis + 1] = Head(it.parts)],
                         strides |-> v.strides]

\* The pull of a last part of size 0, after the parts before it used up the axis, aborted.
SplitLastEmptyPartAborts ==
    /\ last.op = "next" /\ last.st = "abort"
    /\ last.args.parts = <<0>>
    /\ last.args.start = View(last.src).shape[last.args.axis + 1]
    /\ last.args.start > 0


(***************************************************************************)
(* SpecM: merges of a layout of rank MaxNdim + 1, by one range or two.     *)
(***************************************************************************)
\* Shapes of rank MaxNdim + 1 with at most one extent 0.
MergeShapes ==
    {shp \in [1..(MaxNdim + 1) -> 0..MaxDim] : Cardinality({k \in DOMAIN shp : shp[k] = 0}) <= 1}

\* Besides the contiguous layouts and their variants: layouts of extents 2
\* whose strides are equal in absolute value on several axes.
MergeSeeds ==
    UNION {{Input(shp, strd, 2) :
               strd \in Variants(ContiguousStrides(shp, BigEndian, 1))
                        \cup {ContiguousStrides(shp, LittleEndian, 1)}} : shp \in MergeShapes}
    \cup {Input([k \in 1..(MaxNdim + 1) |-> 2], strd, 2) :
             strd \in [1..(MaxNdim + 1) -> (-MaxDim)..MaxDim]}

Policies == Endian \cup {FreeOrder}

MergeLists ==
    {<<MergeArg(st, n, e)>> : st \in 0..(MaxNdim + 1), n \in 0..(MaxNdim + 1), e \in Policies}
    \cup {<<MergeArg(a, n, e), MergeArg(b, k, e)>> :
             a \in {0, 1}, n \in 0..2, b \in 1..MaxNdim, k \in {1, 2}, e \in Policies}

BuildMergeSeed == Fresh /\ New(MergeSeeds, {MaxCap})

InitM == Start(MergeCalls)

NextM ==
    \/ BuildMergeSeed
    \/ MergeMany(MergeLists)

SpecM == InitM /\ [][NextM]_vars

\* The ranges lie within the axes, ascending and without overlap.
RangesAscending(n, args) ==
    \A k \in DOMAIN args :
        /\ args[k].start + args[k].len <= n
        /\ k > 1 => args[k - 1].start + args[k - 1].len <= args[k].start

\* The axes of a range whose extent is not 1 (1-based).
NonUnit(v, a) == {k \in (a.start + 1)..(a.start + a.len) : v.shape[k] # 1}

\* The stride a fused range takes: that of the first non-unit axis in policy
\* order, or 0 when every axis of the range has extent 1.
FusedStrides(v, a) ==
    LET nu == NonUnit(v, a)
    IN IF nu = {} THEN {0}
       ELSE IF a.endian = BigEndian THEN {v.strides[CHOOSE k \in nu : \A j \in nu : j <= k]}
       ELSE IF a.endian = LittleEndian THEN {v.strides[CHOOSE k \in nu : \A j \in nu : k <= j]}
       ELSE {v.strides[k] : k \in {i \in nu : \A j \in nu : Abs(v.strides[i]) <= Abs(v.strides[j])}}

KeptAxes(v, from, to) ==
    [i \in 1..(to - from) |-> [any |-> FALSE, d |-> {v.shape[from + i]}, s |-> {v.strides[from + i]}]]

RECURSIVE MergedAxes(_, _, _)
\* What each axis of the result may be: an axis kept as it is, the fusion of a
\* range of two or more axes, or (for a range of one axis) anything.
MergedAxes(v, args, pos) ==
    IF args = <<>> THEN KeptAxes(v, pos, v.ndim)
    ELSE LET a == Head(args)
         IN IF a.len = 0 THEN MergedAxes(v, Tail(args), pos)
            ELSE KeptAxes(v, pos, a.start)
                 \o <<[any |-> a.len = 1,
                       d |-> {Prod(SubSeq(v.shape, a.start + 1, a.start + a.len))},
                       s |-> FusedStrides(v, a)]>>
                 \o MergedAxes(v, Tail(args), a.start + a.len)

\* C18: when merge_many succeeds on ascending, non-overlapping ranges over
\* extents >= 1, each range of two or more axes becomes one axis: extent the
\* product of the range's extents, stride that of the first non-unit axis in
\* policy order, or (1, 0) when all its extents are 1; the axes outside the
\* ranges keep their extent and stride, in order; the offset is unchanged.
MergeFusesRanges ==
    (/\ last.op = "merge_many" /\ last.st = "ok"
     /\ RangesAscending(View(last.src).ndim, last.args)
     /\ AllExtentsPositive(View(last.src).shape))
    => LET v == View(last.src)
           r == View(last.dst)
           want == MergedAxes(v, last.args, 0)
       IN /\ r.offset = v.offset
          /\ r.ndim = Len(want)
          /\ \A i \in 1..Len(want) :
                want[i].any \/ (r.shape[i] \in want[i].d /\ r.strides[i] \in want[i].s)

\* Two ranges of two axes each were fused, big-endian, into a layout of rank 2.
MergeFusesRangesWitness ==
    /\ last.op = "merge_many" /\ last.st = "ok"
    /\ Len(last.args) = 2
    /\ last.args[1].len = 2 /\ last.args[2].len = 2 /\ last.args[2].start = 2
    /\ last.args[1].endian = BigEndian
    /\ View(last.dst).shape = <<MaxDim * MaxDim, MaxDim * MaxDim>>
    /\ View(last.dst).strides[1] # View(last.src).strides[1]


\* The orders in which a policy may take the non-unit axes of a range.
PolicyOrders(v, a) ==
    LET nu == NonUnit(v, a)
    IN {ord \in [1..Cardinality(nu) -> nu] :
           \A j, k \in DOMAIN ord : j < k =>
               IF a.endian = BigEndian THEN ord[j] > ord[k]
               ELSE IF a.endian = LittleEndian THEN ord[j] < ord[k]
               ELSE ord[j] # ord[k] /\ Abs(v.strides[ord[j]]) <= Abs(v.strides[ord[k]])}

\* Each axis after the first has the first stride times the extents before it.
Contiguous(v, ord) ==
    \A j \in 2..Len(ord) :
        v.strides[ord[j]] = v.strides[ord[1]] * Prod([i \in 1..(j - 1) |-> v.shape[ord[i]]])

\* Some range within the axes breaks the contiguity condition.
SomeRangeBroken(v, args) ==
    \E k \in DOMAIN args :
        /\ args[k].len >= 1
        /\ args[k].start + args[k].len <= v.ndim
        /\ \E ord \in PolicyOrders(v, args[k]) : ~Contiguous(v, ord)

MergeShortRangeIsIdentity ==
    (/\ last.op = "merge_many" /\ Len(last.args) = 1
     /\ last.args[1].len < 2
     /\ last.args[1].start < View(last.src).ndim)
    => (last.st = "ok" /\ View(last.dst) = View(last.src))

\* A range of one axis of extent 1 and non-zero stride came back with stride 0.
MergeUnitAxisLosesStride ==
    /\ last.op = "merge_many" /\ last.st = "ok" /\ Len(last.args) = 1
    /\ last.args[1].len = 1
    /\ last.args[1].start < View(last.src).ndim
    /\ LET v == View(last.src)
           r == View(last.dst)
           k == last.args[1].start + 1
       IN /\ v.shape[k] = 1 /\ v.strides[k] # 0
          /\ r.strides = [v.strides EXCEPT ![k] = 0]
          /\ r.shape = v.shape /\ r.offset = v.offset


(***************************************************************************)
(* SpecTile: one layout of rank up to 2 with extents up to 2 * MaxTile (or *)
(* the layout of the tile tests), and one tile_many of it, or one tile of  *)
(* an axis followed by the merge of the axes it produced.                  *)
(***************************************************************************)
TileShapes == SeqUpTo(0..(2 * MaxTile), 2)

TileSeeds ==
    UNION {{Input(shp, strd, 2) :
               strd \in Variants(ContiguousStrides(shp, BigEndian, 1))
                        \cup {ContiguousStrides(shp, LittleEndian, 1)}} : shp \in TileShapes}
    \cup {Input(<<2, 3, 6>>, <<18, 6, 1>>, 0)}

\* Tile lists of up to three factors, a zero factor included.
TileFactors == SeqUpTo(0..MaxTile, 3)

TileLists ==
    Lists({TileArg(a, e, t) : a \in 0..3, e \in Endian, t \in TileFactors},
          {TileArg(a, e, t) : a \in {0, 1}, e \in Endian,
                              t \in {<<>>, <<2>>, <<1, 2>>, <<2, MaxTile>>, <<2, 1, 2>>}})
    \cup {<<>>}

\* The caller's expression l.tile_be(axis, tiles).merge_be(axis, tiles.len())
\* (or the _le pair): the tiled layout is a temporary, dropped once merged.
tile_then_merge(l, h, axis, endian, tiles) ==
    LET t == tile_many(l, h, <<TileArg(axis, endian, tiles)>>)
    IN IF t.st # "ok" THEN t
       ELSE LET r == merge_many(t.l, t.h, <<MergeArg(axis, Len(tiles), endian)>>, FALSE)
            IN [r EXCEPT !.h = drop(t.l, r.h)]

TileThenMerge(Args) ==
    /\ fuel > 0
    /\ \E src \in Slots, dst \in Slots, a \in Args :
        /\ Live(src)
        /\ Returns("tile_then_merge", src, dst, a,
                   tile_then_merge(slots[src], heap, a.axis, a.endian, a.tiles))

BuildTileSeed == Fresh /\ New(TileSeeds, {MaxCap})

InitTile == Start(TileCalls)

NextTile ==
    \/ BuildTileSeed
    \/ TileMany(TileLists)
    \/ TileThenMerge({TileArg(a, e, t) : a \in 0..2, e \in Endian, t \in TileFactors})

SpecTile == InitTile /\ [][NextTile]_vars

\* Every arg names an axis of the layout whose extent is the product of its
\* tiles, the tiles are positive, and the axes are strictly ascending.
ValidTileArgs(v, args) ==
    /\ AxesAscending(v.ndim, args)
    /\ \A k \in DOMAIN args :
          /\ Prod(args[k].tiles) = v.shape[args[k].axis + 1]
          /\ \A j \in DOMAIN args[k].tiles : args[k].tiles[j] >= 1

\* The strides of the axes that replace the axis of arg a: s*d/t0,
\* s*d/(t0*t1), ..., s for BigEndian and s, s*t0, s*t0*t1, ... for LittleEndian.
TileStrides(v, a) ==
    LET d == v.shape[a.axis + 1]
        s == v.strides[a.axis + 1]
    IN [k \in 1..Len(a.tiles) |->
           IF a.endian = BigEndian THEN s * (d \div Prod(SubSeq(a.tiles, 1, k)))
           ELSE s * Prod(SubSeq(a.tiles, 1, k - 1))]

RECURSIVE TiledAxes(_, _, _)
\* The axes from the 1-based axis i on, each tiled axis replaced in place.
TiledAxes(v, args, i) ==
    IF i > v.ndim THEN [shape |-> <<>>, strides |-> <<>>]
    ELSE LET hit == {k \in DOMAIN args : args[k].axis = i - 1}
             a == args[CHOOSE k \in hit : TRUE]
             rest == TiledAxes(v, args, i + 1)
         IN IF hit = {}
            THEN [shape |-> <<v.shape[i]>> \o rest.shape,
                  strides |-> <<v.strides[i]>> \o rest.strides]
            ELSE [shape |-> a.tiles \o rest.shape,
                  strides |-> TileStrides(v, a) \o rest.strides]

\* C21: tile_many with valid args (axes of the layout, strictly ascending,
\* tiles all >= 1 with product the extent) returns a layout in which each tiled
\* axis of extent d and stride s is replaced in place by axes of extents
\* t0..tk with strides s*d/t0, s*d/(t0*t1), ..., s (BigEndian) or s, s*t0,
\* s*t0*t1, ... (LittleEndian); the other axes and the offset are unchanged
\* and ndim grows by sum(len(tiles)) - #args.
TileReplacesAxis ==
    (last.op = "tile_many" /\ ValidTileArgs(View(last.src), last.args)) =>
        /\ last.st = "ok"
        /\ LET v == View(last.src)
               t == TiledAxes(v, last.args, 1)
           IN View(last.dst) =
                 [ndim |-> v.ndim + SumTiles(last.args) - Len(last.args),
                  offset |-> v.offset, shape |-> t.shape, strides |-> t.strides]

\* new([2,3,6], [18,6,1], 0).tile_be(2, [2,3]) is [2,3,2,3] with strides [18,6,3,1].
TileReplacesAxisWitness ==
    /\ last.op = "tile_many" /\ last.st = "ok"
    /\ last.args = <<TileArg(2, BigEndian, <<2, 3>>)>>
    /\ View(last.src).shape = <<2, 3, 6>> /\ View(last.src).strides = <<18, 6, 1>>
    /\ View(last.dst).shape = <<2, 3, 2, 3>> /\ View(last.dst).strides = <<18, 6, 3, 1>>


\* Some arg names no axis of the layout, or tiles whose product is not the
\* extent of its axis, or an axis that is not above the one before it.
SomeTileArgInvalid(v, args) ==
    \E k \in DOMAIN args :
        \/ args[k].axis >= v.ndim
        \/ Prod(args[k].tiles) # v.shape[args[k].axis + 1]
        \/ (k > 1 /\ args[k - 1].axis >= args[k].axis)

\* C22: tile_many aborts and returns no layout whenever some arg names an axis
\* >= ndim, has product(tiles) # shape[axis], or the arg axes are not strictly
\* ascending; with an empty argument list it returns a layout equal to the
\* receiver.
TileInvalidAborts ==
    last.op = "tile_many" =>
        /\ SomeTileArgInvalid(View(last.src), last.args) =>
              (last.st = "abort" /\ NothingReturned)
        /\ last.args = <<>> =>
              /\ last.st = "ok"
              /\ eq(slots[last.dst], slots[last.src], heap)
              /\ View(last.dst) = View(last.src)

\* Two args, each valid for its axis, listed with the higher axis first.
TileInvalidAbortsWitness ==
    /\ last.op = "tile_many" /\ last.st = "abort"
    /\ Len(last.args) = 2
    /\ last.args[1].axis = 1 /\ last.args[2].axis = 0
    /\ \A k \in 1..2 : tile_check(View(last.src).shape, last.args[k])


(***************************************************************************)
(* Conversions between capacities, under SpecC.                            *)
(***************************************************************************)
\* C23: to_inline_size::<M>() returns a layout of capacity M with the ndim,
\* shape, strides and offset of the receiver, for every pair of capacities N
\* and M; the receiver is unchanged; the result is stored inline iff
\* ndim <= M; and converting the result back to capacity N gives a layout
\* equal to the receiver.
ToInlineSizeKeepsFields ==
    [][(last'.op = "to_inline_size") =>
          /\ last'.st = "ok"
          /\ \A src, dst \in Slots : (src = last'.src /\ dst = last'.dst) =>
                LET back == to_inline_size(slots'[dst], slots[src].N, heap')
                IN /\ slots'[src] = slots[src] /\ View(src)' = View(src)
                   /\ slots'[dst].N = last'.args
                   /\ View(dst)' = View(src)
                   /\ (ptr_allocated(slots'[dst]) = 0) <=> (slots[src].ndim <= last'.args)
                   /\ back.st = "ok" /\ back.l.N = slots[src].N
                   /\ eq(back.l, slots'[src], back.h)]_vars

\* A heap-stored layout of rank 2 and capacity 1 converted to capacity 2 is inline.
ToInlineSizeKeepsFieldsWitness ==
    /\ last.op = "to_inline_size" /\ last.st = "ok" /\ last.args = 2
    /\ slots[last.src].N = 1 /\ slots[last.src].ndim = 2
    /\ ptr_allocated(slots[last.src]) # 0
    /\ ptr_allocated(slots[last.dst]) = 0
    /\ View(last.dst) = View(last.src)


(***************************************************************************)
(* SpecH: one layout of capacity 1, so that every rank from 2 on is heap   *)
(* stored, built by new or new_contiguous, and one transform of it.        *)
(***************************************************************************)
BuildHeapSeed == Fresh /\ New(SeedInputs, {1})

BuildHeapContiguous ==
    Fresh /\ NewContiguous({ContiguousInput(shp, e, 2) : shp \in Shapes, e \in Endian}, {1})

InitH == Start(HeapCalls)

NextH ==
    \/ BuildHeapSeed
    \/ BuildHeapContiguous
    \/ IndexMany(IndexArgs)
    \/ SliceMany(SliceArgs)
    \/ MergeMany(MergeArgs)
    \/ TileMany(TileArgs)
    \/ Transpose(Perms)

SpecH == InitH /\ [][NextH]_vars

\* C24: the block of a heap-stored layout has exactly 1 + 2*ndim words, laid
\* out as [offset][shape[0..ndim]][strides[0..ndim]], and every one of them has
\* been written when new, new_contiguous, index_many, slice_many, merge_many,
\* tile_many or transpose returns the layout: no shape or stride entry of a
\* returned layout was never assigned.
HeapWordsWritten ==
    \A s \in Slots : HeapStored(s) =>
        LET b == Blk(heap, slots[s].ptr)
            n == slots[s].ndim
        IN /\ b.live
           /\ Len(b.w) = 1 + 2 * n
           /\ b.un = {}
           /\ View(s).offset = b.w[1]
           /\ View(s).shape = SubSeq(b.w, 2, 1 + n)
           /\ View(s).strides = SubSeq(b.w, 2 + n, 1 + 2 * n)

\* merge_many returned a heap-stored layout for a list with a range of length 0.
HeapWordsWrittenWitness ==
    /\ last.op = "merge_many" /\ last.st = "ok"
    /\ HeapStored(last.dst)
    /\ \E k \in DOMAIN last.args : last.args[k].len = 0
    /\ Blk(heap, slots[last.dst].ptr).un = {}


\* C25: tiling then merging is the identity: for every layout, every axis with
\* extent >= 2 and every non-empty list of positive tiles whose product is the
\* extent, tile_be(axis, tiles).merge_be(axis, tiles.len()) returns a layout
\* equal to the receiver, and so does tile_le followed by merge_le.
TileThenMergeIsIdentity ==
    (/\ last.op = "tile_then_merge"
     /\ last.args.axis < View(last.src).ndim
     /\ last.args.tiles # <<>>
     /\ \A j \in DOMAIN last.args.tiles : last.args.tiles[j] >= 1
     /\ View(last.src).shape[last.args.axis + 1] >= 2
     /\ Prod(last.args.tiles) = View(last.src).shape[last.args.axis + 1]) =>
        /\ last.st = "ok"
        /\ eq(slots[last.dst], slots[last.src], heap)
        /\ View(last.dst) = View(last.src)

\* An axis of extent 6 and negative stride, tiled 2 x 3 and merged again, each way.
TileThenMergeIsIdentityWitness ==
    /\ last.op = "tile_then_merge" /\ last.st = "ok"
    /\ last.args.tiles = <<2, 3>>
    /\ last.args.endian = LittleEndian
    /\ View(last.src).ndim = 2 /\ last.args.axis = 1
    /\ View(last.src).strides[2] < 0
    /\ eq(slots[last.dst], slots[last.src], heap)


(***************************************************************************)
(* Addressing: the positions a layout maps the flat indices to.            *)
(***************************************************************************)
\* Layouts a and b have as many elements and map every flat index to the same
\* position under endian e.
SameAddressing(a, b, e) ==
    /\ num_elements(a, heap) = num_elements(b, heap)
    /\ \A i \in 0..(num_elements(a, heap) - 1) :
          /\ element_offset(a, heap, i, e).st = "ok"
          /\ element_offset(b, heap, i, e).st = "ok"
          /\ element_offset(a, heap, i, e).val = element_offset(b, heap, i, e).val

\* C26: a successful merge keeps the addressing: when merge_many with
\* ascending, non-overlapping ranges that all use BigEndian returns a layout R
\* from a layout L with all extents >= 1, R has as many elements as L and
\* R.element_offset(i, BigEndian) = L.element_offset(i, BigEndian) for every
\* i < num_elements; likewise with LittleEndian ranges and LittleEndian offsets.
MergeKeepsAddressing ==
    \A e \in Endian :
        (/\ last.op = "merge_many" /\ last.st = "ok"
         /\ AllExtentsPositive(View(last.src).shape)
         /\ RangesAscending(View(last.src).ndim, last.args)
         /\ \A k \in DOMAIN last.args : last.args[k].endian = e) =>
            SameAddressing(slots[last.dst], slots[last.src], e)

\* Two big-endian ranges of two axes of extent 2 each fused into an axis of extent 4.
MergeKeepsAddressingWitness ==
    /\ last.op = "merge_many" /\ last.st = "ok"
    /\ last.args = <<MergeArg(0, 2, BigEndian), MergeArg(2, 2, BigEndian)>>
    /\ View(last.src).shape = <<2, 2, 2, 2>>
    /\ View(last.dst).shape = <<4, 4>>
    /\ SameAddressing(slots[last.dst], slots[last.src], BigEndian)


\* C27: tiling keeps the addressing: for every valid tile_many whose args all
\* use BigEndian (tiles positive) the result R has as many elements as the
\* receiver L and R.element_offset(i, BigEndian) = L.element_offset(i, BigEndian)
\* for every i < num_elements; likewise for LittleEndian args and LittleEndian
\* offsets.
TileKeepsAddressing ==
    \A e \in Endian :
        (/\ last.op = "tile_many"
         /\ ValidTileArgs(View(last.src), last.args)
         /\ \A k \in DOMAIN last.args : last.args[k].endian = e) =>
            /\ last.st = "ok"
            /\ SameAddressing(slots[last.dst], slots[last.src], e)

\* Two little-endian args: an axis of extent 2 * MaxTile tiled 2 x MaxTile, one of extent 2 tiled 1 x 2.
TileKeepsAddressingWitness ==
    /\ last.op = "tile_many" /\ last.st = "ok"
    /\ last.args = <<TileArg(0, LittleEndian, <<2, MaxTile>>), TileArg(1, LittleEndian, <<1, 2>>)>>
    /\ View(last.src).shape = <<2 * MaxTile, 2>>
    /\ View(last.dst).shape = <<2, MaxTile, 1, 2>>
    /\ num_elements(slots[last.dst], heap) = 4 * MaxTile
    /\ SameAddressing(slots[last.dst], slots[last.src], LittleEndian)


\* The layout merge_free(start, len) returns for the layout in slot s, the
\* unstable sort placing axes of equal absolute stride in the order `flip`.
MergeFree(s, start, len, flip) ==
    merge_many(slots[s], heap, <<MergeArg(start, len, FreeOrder)>>, flip)

\* C28: merge_free accepts everything the ordered merges accept: whenever
\* merge_be(start, len) or merge_le(start, len) returns a layout,
\* merge_free(start, len) returns an equal layout; and what merge_free returns
\* does not depend on how the sort orders axes of equal absolute stride.
MergeFreeAcceptsOrdered ==
    (last.op = "merge_many" /\ Len(last.args) = 1) =>
        LET a == last.args[1]
        IN /\ (a.endian \in Endian /\ last.st = "ok") =>
                 \A flip \in BOOLEAN :
                     LET r == MergeFree(last.src, a.start, a.len, flip)
                     IN r.st = "ok" /\ eq(r.l, slots[last.dst], r.h)
           /\ a.endian = FreeOrder =>
                 \A flip \in BOOLEAN :
                     LET r == MergeFree(last.src, a.start, a.len, flip)
                     IN /\ r.st = last.st
                        /\ r.st = "ok" => eq(r.l, slots[last.dst], r.h)

\* merge_le fused three axes of stride 0: any order of the sort gives the same layout.
MergeFreeAcceptsOrderedWitness ==
    /\ last.op = "merge_many" /\ last.st = "ok"
    /\ last.args = <<MergeArg(1, 3, LittleEndian)>>
    /\ View(last.src).shape = <<2, 2, 2, 2>>
    /\ View(last.src).strides = <<1, 0, 0, 0>>
    /\ View(last.dst).shape = <<2, 8>> /\ View(last.dst).strides = <<1, 0>>
    /\ \A flip \in BOOLEAN :
          eq(MergeFree(last.src, 1, 3, flip).l, slots[last.dst],
             MergeFree(last.src, 1, 3, flip).h)


(***************************************************************************)
(* SpecS: one layout of rank up to 2 with any strides, and its slices.     *)
(* The caller either makes one slice_many call, or splits the layout and   *)
(* pulls the parts one by one, dropping each sub-layout before the next    *)
(* pull.                                                                   *)
(***************************************************************************)
SliceSeeds ==
    UNION {{Input(shp, strd, 5) : strd \in [1..Len(shp) -> {-MaxStride, 0, 1}]}
              : shp \in SeqUpTo(0..MaxExtent, 2)}

\* Starts inside and beyond the axis, steps of either sign and 0, lengths
\* from 0 to more than the axis holds.
SliceLists ==
    Lists({SliceArg(a, st, sp, n) : a \in 0..2, st \in {0, 1, MaxExtent - 1, MaxExtent + 1},
                                    sp \in (-2)..2, n \in {0, 1, MaxExtent - 1, 2 * MaxExtent + 1}},
          {SliceArg(a, 1, sp, 2) : a \in {0, 1}, sp \in {-1, 0, 2}})

SliceSplitArgs ==
    {[axis |-> a, parts |-> p] :
        a \in {0, 1},
        p \in {<<1>>, <<1, 1>>, <<2, 2>>, <<1, MaxExtent - 1>>, <<MaxExtent - 1, 1>>,
               <<1, 1, 2>>, <<MaxExtent>>, <<0, 2>>}}

BuildSliceSeed == Fresh /\ New(SliceSeeds, {MaxCap})

\* The first call after the layout is built: a slice_many, or a split.
SliceOnce == fuel = SliceCalls - 1 /\ SliceMany(SliceLists)

SplitOnce == fuel = SliceCalls - 1 /\ SplitBegin(SliceSplitArgs)

\* The caller drops the sub-layout it pulled.
DropItem == iter.live /\ Drop

InitS == Start(SliceCalls)

NextS ==
    \/ BuildSliceSeed
    \/ SliceOnce
    \/ SplitOnce
    \/ SplitNext
    \/ SplitEnd
    \/ DropItem

SpecS == InitS /\ [][NextS]_vars

\* C29: a slice never addresses memory outside its source: when the receiver
\* has all extents >= 1 and slice_many (any step sign, step 0 with any len and
\* a negative step with a start beyond the axis end included) or a pull of
\* split returns a layout with all extents >= 1, every position the result
\* addresses is one the receiver addresses, and the result's data_range() lies
\* within the receiver's.
SliceStaysInside ==
    (/\ last.op \in {"slice_many", "next"} /\ last.st = "ok"
     /\ AllExtentsPositive(View(last.src).shape)
     /\ AllExtentsPositive(View(last.dst).shape)) =>
        /\ Addressed(slots[last.dst], BigEndian) \subseteq Addressed(slots[last.src], BigEndian)
        /\ data_range(slots[last.src], heap)[1] <= data_range(slots[last.dst], heap)[1]
        /\ data_range(slots[last.dst], heap)[2] <= data_range(slots[last.src], heap)[2]

\* A slice with step -2 from a start beyond the end of an axis of extent
\* MaxExtent begins at the last element of the axis.
SliceStaysInsideWitness ==
    /\ last.op = "slice_many" /\ last.st = "ok"
    /\ last.args = <<SliceArg(0, MaxExtent + 1, -2, MaxExtent - 1)>>
    /\ View(last.src).shape = <<MaxExtent, 2>>
    /\ View(last.src).strides = <<-MaxStride, 1>>
    /\ View(last.dst).offset = View(last.src).offset - MaxStride * (MaxExtent - 1)
    /\ View(last.dst).strides = <<2 * MaxStride, 1>>
    /\ data_range(slots[last.dst], heap)[1] = data_range(slots[last.src], heap)[1]

====
